---- MODULE Spec2Model ----
(***************************************************************************)
(* Modbus/TCP request/response correlation, as implemented three times in  *)
(* this repository:                                                        *)
(*   "parse_pcap"                  src/pcap_to_csv.py            (PyShark) *)
(*   "correlate_modbus"            src/pcap_tools/pcap_to_csv.py (tshark)  *)
(*   "analyze_modbus_transactions" src/pcap_analyzer.py          (Scapy)   *)
(* One behaviour is one run of one of the three programs over a capture    *)
(* whose frames are chosen one at a time.                                  *)
(*                                                                         *)
(* Timestamps are whole seconds; rtt values are milliseconds.  At that     *)
(* granularity round(x, 3) and the "%.3f" rendering change nothing.        *)
(***************************************************************************)
EXTENDS Integers, Sequences, FiniteSets, TLC

\* ------------------------------------------------------------------ bounds
\* Frames in a capture.
MaxFrames == 4
\* Transaction identifiers are 1..MaxTid.
MaxTid == 2
\* Timestamps are 1..MaxTime.
MaxTime == 2
\* Frame limits are 0..MaxLimit, or none.
MaxLimit == 3
\* Timestamps of the captures whose rates are computed are 1..MaxLateTime.
MaxLateTime == 4
\* Packets fed to a Stats object on its own, and the hosts that send them.
MaxStatsPackets == 13
MaxHosts == 12
MaxLayerFields == 3
MaxLookups == 2
\* Scenarios the ScenarioRunner starts in one run, from the menu or by itself.
MaxStarts == 3
\* Ticks of the clock the ScenarioRunner is followed for.
MaxRunnerTicks == 16
\* Automatic-attack threads HMI2 creates in one run.
MaxThreads == 2
\* Attacks HMI2 executes in one run, and commands it sends.
MaxAttacks == 2
MaxCommands == 2
\* Seconds the attack loop sleeps before an attack (the code draws 10 to 30).
MaxSleep == 2
\* Days the LongTermScenario is followed for, and the cycles of _operate
\* that are told apart within one hour.
MaxDays == 31
MaxCyclesPerHour == 2

\* --------------------------------------------------------------- constants
\* The well-known Modbus/TCP server port.
ServerPort == 502
\* Seconds to milliseconds.
MsPerSecond == 1000
\* Some port that is not the server port.
OtherPort == ServerPort + 1
\* The fixed part of a Modbus/TCP message: the 7-byte MBAP header and the
\* function code.
MinModbusHeader == 8
\* The protocol identifier of Modbus in the MBAP header.
ModbusProtocolId == 0
\* The length of the top lists of the summary.
TopN == 10
\* The function code of Read Holding Registers.
ReadHoldingRegisters == 3
ReadInputRegisters == 4
\* The exception code Illegal Data Address.
IllegalDataAddress == 2

\* ------------------------------------------------------- optional values
\* A value that may be blank (None, or "" in a CSV row).
Some(x) == [present |-> TRUE, v |-> x]
Blank == [present |-> FALSE, v |-> 0]
BlankStr == [present |-> FALSE, v |-> ""]

\* The raw frame.time_epoch field handed over by the decoder: absent, a text
\* that is not a number, or the text of a number.
NoTime == [present |-> FALSE, ok |-> FALSE, v |-> 0]
BadTime == [present |-> TRUE, ok |-> FALSE, v |-> 0]
NumTime(n) == [present |-> TRUE, ok |-> TRUE, v |-> n]

Max(a, b) == IF a >= b THEN a ELSE b

\* round(n / d, 2) for n >= 0 and d > 0, in hundredths: the nearest hundredth,
\* and the even one of two equally near.
Round2(n, d) ==
    LET q == (100 * n) \div d
        r == (100 * n) % d
    IN  IF 2 * r > d THEN q + 1
        ELSE IF 2 * r < d THEN q
        ELSE IF q % 2 = 0 THEN q ELSE q + 1

\* Python's a or b, of two optional values.
Or(a, b) == IF a.present THEN a ELSE b

\* ---------------------------------------------------------- Python dict
\* A dict is a sequence of [k, v] entries in insertion order, keys unique.
EmptyDict == << >>

DictKeys(d) == {d[n].k : n \in DOMAIN d}

DictHas(d, key) == key \in DictKeys(d)

DictGet(d, key) == d[CHOOSE n \in DOMAIN d : d[n].k = key].v

\* d[key] = val: an existing key keeps its place, a new key goes last.
DictSet(d, key, val) ==
    IF DictHas(d, key)
    THEN [n \in DOMAIN d |-> IF d[n].k = key THEN [k |-> key, v |-> val] ELSE d[n]]
    ELSE Append(d, [k |-> key, v |-> val])

\* DictDel leaving the entry where it is.
DictKeep(d, key) == d

\* d.pop(key) / del d[key]
DictDel(d, key) == SelectSeq(d, LAMBDA e : e.k # key)

\* collections.Counter: c[key] += 1
CounterAdd(c, key) ==
    IF DictHas(c, key) THEN DictSet(c, key, DictGet(c, key) + 1) ELSE DictSet(c, key, 1)

\* c[:n]
FirstSeen(c, n) == SubSeq(c, 1, IF Len(c) < n THEN Len(c) ELSE n)

\* sorted(c.items(), key=count, reverse=True): a stable sort, so that entries
\* with equal counts stay in the order they were first seen.
RECURSIVE SortedByCount(_)
SortedByCount(c) ==
    IF c = << >> THEN << >>
    ELSE LET sorted == SortedByCount(SubSeq(c, 1, Len(c) - 1))
             e == c[Len(c)]
             ahead == Cardinality({n \in DOMAIN sorted : sorted[n].v >= e.v})
         IN  SubSeq(sorted, 1, ahead) \o <<e>> \o SubSeq(sorted, ahead + 1, Len(sorted))

\* MostCommon without the sort.
MostCommonUnsorted(c, n) == FirstSeen(c, n)

\* Counter.most_common(n)
MostCommon(c, n) == FirstSeen(SortedByCount(c), n)

\* sum(c.values())
RECURSIVE CounterTotal(_)
CounterTotal(c) == IF c = << >> THEN 0 ELSE Head(c).v + CounterTotal(Tail(c))

\* ---------------------------------------------------------------- frames
\* tshark's tcp.stream: one index per TCP conversation, whichever way a
\* frame of it flows.
StreamOf(ip1, port1, ip2, port2) == {<<ip1, port1>>, <<ip2, port2>>}

\* tcp.stream of a frame that has no TCP layer, and the "-1" that
\* correlate_modbus puts in its place.
NoStream == {}
MinusOne == {<<"-1", 0>>}

\* A well-formed Modbus message over IP and TCP.
Frame(sip, sport, dip, dport, tid, time) ==
    [l4 |-> "TCP",
     src_ip |-> sip, src_port |-> sport, dst_ip |-> dip, dst_port |-> dport,
     payload_len |-> MinModbusHeader, proto_id |-> ModbusProtocolId,
     tid |-> tid, func_code |-> Some(ReadHoldingRegisters), exception |-> Blank,
     reference |-> Blank, word_cnt |-> Blank, byte_cnt |-> Blank, values |-> BlankStr,
     time_epoch |-> time,
     tcp_stream |-> StreamOf(sip, sport, dip, dport)]

\* The same message carried over UDP.
OverUdp(f) == [f EXCEPT !.l4 = "UDP", !.tcp_stream = NoStream]

\* The same frame with another protocol identifier in its header.
WithProtoId(f, proto_id) == [f EXCEPT !.proto_id = proto_id]

\* The same frame with another function code, or none decoded.
WithFuncCode(f, func_code) == [f EXCEPT !.func_code = func_code]

\* The same frame with an exception code, or none.
WithException(f, exception) == [f EXCEPT !.exception = exception]

\* The same frame as a request for word_cnt registers from reference on.
WithReference(f, reference, word_cnt) ==
    [f EXCEPT !.reference = reference, !.word_cnt = word_cnt]

\* The same frame as a response that carries byte_cnt bytes of register values.
WithValues(f, byte_cnt, values) ==
    [f EXCEPT !.byte_cnt = Some(byte_cnt), !.values = Some(values)]

\* The transaction id of a frame whose Modbus layer shows none: the decoder
\* gives None, which is no id of Tids.
NoTid == 0

\* The same frame with no transaction id in its Modbus layer.
WithoutTid(f) == [f EXCEPT !.tid = NoTid]

\* The same frame with a payload of n bytes.
WithPayloadLen(f, n) == [f EXCEPT !.payload_len = n]

\* Whether the decoder (tshark, behind PyShark too) gives the frame a Modbus
\* layer: its Modbus/TCP dissector wants the 8 header bytes and protocol
\* identifier 0, and leaves any other payload undissected.
HasModbusLayer(f) ==
    f.payload_len >= MinModbusHeader /\ f.proto_id = ModbusProtocolId

Clients == {"c1", "c2"}
Server == "srv"
Tids == 1..MaxTid
Times == 1..MaxTime

ToServer(c, tid, time) == Frame(c, OtherPort, Server, ServerPort, tid, time)
FromServer(c, tid, time) == Frame(Server, ServerPort, c, OtherPort, tid, time)

\* Two clients talking to one server, any transaction id, one timestamp.
CoreFrames ==
    {ToServer(c, t, NumTime(1)) : c \in Clients, t \in Tids}
        \cup {FromServer(c, t, NumTime(1)) : c \in Clients, t \in Tids}

\* ----------------------------------------------------------------- state
VARIABLES
    prog,             \* which of the three programs runs
    pc,               \* where the run is
    packets,          \* the frames read from the capture so far, in order
    processed,        \* frames the correlation loop has handled
    stats,            \* parse_pcap: the Stats object
    pending,          \* parse_pcap: outstanding requests
    max_packets,      \* parse_pcap: the frame limit, or None
    conv_rows,        \* parse_pcap: the conv_row of every matched pair
    conversations_csv,\* parse_pcap: rows in modbus_conversations.csv
    open_reqs,        \* correlate_modbus: open requests
    out_rows,         \* correlate_modbus: rows returned
    pending_queries,  \* analyze_modbus_transactions: pending queries
    transactions,     \* analyze_modbus_transactions: transactions returned
    layer,            \* the layer a field is looked up in
    fields,           \* the lookups made in layer, with what they returned
    only_modbus,      \* parse_pcap: the flag that leaves packets.csv out
    packets_csv,      \* parse_pcap: rows in packets.csv
    sink_ok,          \* which output files can be written
    written,          \* the output files written
    hmi,              \* the attributes of the HMI object, when one runs
    plant             \* what is around the HMI: the clock, the tags it wrote

vars == <<prog, pc, packets, processed, stats, pending, max_packets, conv_rows,
          conversations_csv, open_reqs, out_rows, pending_queries, transactions,
          layer, fields, only_modbus, packets_csv, sink_ok, written, hmi, plant>>

parseVars == <<stats, pending, conv_rows, conversations_csv>>
toolsVars == <<open_reqs, out_rows>>
scapyVars == <<pending_queries, transactions>>
fieldVars == <<layer, fields>>
sinkVars == <<sink_ok, written>>
hmiVars == <<hmi, plant>>

Programs == {"parse_pcap", "correlate_modbus", "analyze_modbus_transactions"}

L4Protocols == {"TCP", "UDP"}

StatsInit ==
    [total_packets |-> 0, l4_counter |-> [p \in L4Protocols |-> 0],
     ip_pairs |-> EmptyDict,
     modbus_func_counter |-> EmptyDict,
     modbus_rtts |-> << >>, modbus_exceptions |-> 0]

\* The state a run starts in, for one of the programs progs and, in
\* parse_pcap, a frame limit out of limits.
\* The output files of the three programs.
Sinks == {"packets", "conversations", "report"}

\* No HMI runs beside a conversion.
NoHmi == [name |-> "none"]
NoPlant == [now |-> 0]

\* parse_pcap opens its two writers before anything else.
WritersOpen == (only_modbus \/ sink_ok["packets"]) /\ sink_ok["conversations"]

InitRun(progs, limits) ==
    /\ prog \in progs
    /\ max_packets \in (IF prog = "parse_pcap" THEN limits ELSE {Blank})
    /\ conversations_csv = << >>
    /\ pc = IF prog = "correlate_modbus" THEN "extract"
            ELSE IF prog = "parse_pcap" /\ ~WritersOpen
            THEN \* open raises before the loop and outside the try
                 "aborted"
            ELSE "run"
    /\ packets = << >>
    /\ processed = 0
    /\ stats = StatsInit
    /\ pending = EmptyDict
    /\ conv_rows = << >>
    /\ open_reqs = EmptyDict
    /\ out_rows = << >>
    /\ pending_queries = EmptyDict
    /\ transactions = << >>

\* No field lookup, packets.csv asked for, every output file writable.
InitWith(progs, limits) ==
    /\ layer = EmptyDict
    /\ fields = << >>
    /\ only_modbus = FALSE
    /\ packets_csv = << >>
    /\ sink_ok = [s \in Sinks |-> TRUE]
    /\ written = {}
    /\ hmi = NoHmi
    /\ plant = NoPlant
    /\ InitRun(progs, limits)

\* A run without a frame limit.
InitOf(progs) == InitWith(progs, {Blank})

Init == InitOf(Programs)

\* ------------------------------------------------- parse_pcap (PyShark)
\* AddPacket counting the frame twice.
AddPacketTwice(s, f) ==
    [s EXCEPT !.total_packets = @ + 2,
              !.ip_pairs = CounterAdd(@, <<f.src_ip, f.dst_ip>>)]

\* Stats.add_packet, as far as the counters kept here go.
AddPacket(s, f) ==
    [s EXCEPT !.total_packets = @ + 1,
              !.ip_pairs = CounterAdd(@, <<f.src_ip, f.dst_ip>>)]

\* Stats.add_l4
AddL4(s, proto) == [s EXCEPT !.l4_counter[proto] = @ + 1]

\* Stats.add_modbus_func
AddModbusFunc(s, func_code) ==
    IF func_code.present
    THEN [s EXCEPT !.modbus_func_counter = CounterAdd(@, func_code.v)]
    ELSE s

\* AddModbusException counting the exception twice.
AddModbusExceptionTwice(s) == [s EXCEPT !.modbus_exceptions = @ + 2]

\* Stats.add_modbus_exception
AddModbusException(s) == [s EXCEPT !.modbus_exceptions = @ + 1]

\* extract_modbus_fields: every field is None without a Modbus layer.
ModbusField(f, field) == IF HasModbusLayer(f) THEN field ELSE Blank

\* modbus_fields['tid']
ModbusTid(f) == IF f.tid = NoTid THEN Blank ELSE ModbusField(f, Some(f.tid))

\* What every frame within the limit adds to the Stats.
CountFrame(s, f) ==
    AddModbusFunc(AddL4(AddPacket(s, f), f.l4), ModbusField(f, f.func_code))

\* LimitReached stopping at the last frame within the limit.
LimitReachedInclusive(n, limit) == limit.present /\ n >= limit.v

\* The loop's test of the frame limit, after processed was incremented.
LimitReached(n, limit) == limit.present /\ n > limit.v

\* AddModbusRtt losing the sample.
AddModbusRttDropped(s, rtt) == s

\* Stats.add_modbus_rtt
AddModbusRtt(s, rtt) == [s EXCEPT !.modbus_rtts = Append(@, rtt)]

\* key_req and key_resp of a frame
KeyReq(f) == <<f.src_ip, f.src_port, f.dst_ip, f.dst_port, f.tid>>
\* KeyResp with the swap of the two ends forgotten.
KeyRespUnswapped(f) == <<f.src_ip, f.src_port, f.dst_ip, f.dst_port, f.tid>>

KeyResp(f) == <<f.dst_ip, f.dst_port, f.src_ip, f.src_port, f.tid>>

\* The entry stored for a potential request.
PendingEntry(f, frame_no) ==
    [frame_no |-> frame_no, time_epoch |-> f.time_epoch,
     src_ip |-> f.src_ip, src_port |-> f.src_port,
     dst_ip |-> f.dst_ip, dst_port |-> f.dst_port,
     func_code |-> f.func_code,
     reference |-> f.reference, word_cnt |-> f.word_cnt]

\* ParsePcapRtt with rtt_ms defaulting to 0 when a time is missing or not a number.
ParsePcapRttDefaultZero(t0, t1) ==
    IF t0.present /\ t1.present /\ t0.ok
    THEN Some(Max((t1.v - t0.v) * MsPerSecond, 0))
    ELSE Some(0)

\* rtt_ms of a matched pair: t0 is the stored text of the request's time, t1
\* the response's time, already a number or None.  float(t0) failing leaves
\* rtt_ms None.
ParsePcapRtt(t0, t1) ==
    IF t0.present /\ t1.present
    THEN IF t0.ok THEN Some(Max((t1.v - t0.v) * MsPerSecond, 0)) ELSE Blank
    ELSE Blank

\* ConvRow with the two frame numbers exchanged.
ConvRowFramesSwapped(req, f, frame_no, rtt) ==
    [req_frame |-> Some(frame_no), resp_frame |-> Some(req.frame_no),
     src_ip |-> req.src_ip, src_port |-> req.src_port,
     dst_ip |-> req.dst_ip, dst_port |-> req.dst_port,
     func_code |-> Or(f.func_code, req.func_code),
     transaction_id |-> f.tid,
     reference |-> Or(req.reference, f.reference),
     word_count |-> Or(req.word_cnt, f.word_cnt),
     byte_count |-> f.byte_cnt, values |-> f.values,
     exception |-> f.exception, rtt_ms |-> rtt]

ConvRow(req, f, frame_no, rtt) ==
    [req_frame |-> Some(req.frame_no), resp_frame |-> Some(frame_no),
     src_ip |-> req.src_ip, src_port |-> req.src_port,
     dst_ip |-> req.dst_ip, dst_port |-> req.dst_port,
     func_code |-> Or(f.func_code, req.func_code),
     transaction_id |-> f.tid,
     reference |-> Or(req.reference, f.reference),
     word_count |-> Or(req.word_cnt, f.word_cnt),
     byte_count |-> f.byte_cnt, values |-> f.values,
     exception |-> f.exception, rtt_ms |-> rtt]

\* The row of packets.csv for frame number frame_no.
PacketRow(f, frame_no) ==
    [frame_no |-> frame_no, time_epoch |-> f.time_epoch,
     src_ip |-> f.src_ip, dst_ip |-> f.dst_ip, l4_proto |-> f.l4,
     src_port |-> f.src_port, dst_port |-> f.dst_port,
     modbus_tid |-> ModbusTid(f),
     modbus_func |-> ModbusField(f, f.func_code),
     modbus_exception |-> ModbusField(f, f.exception)]

\* The finally block: both writers are closed, then analysis.md is opened
\* and written.  The files that are complete after it.
ParsePcapFinally ==
    (IF only_modbus THEN {} ELSE {"packets"}) \cup {"conversations"}
        \cup (IF sink_ok["report"] THEN {"report"} ELSE {})

\* What the loop carries from one frame to the next.
ParseState ==
    [pc |-> pc, stats |-> stats, pending |-> pending, conv_rows |-> conv_rows,
     conversations_csv |-> conversations_csv, packets_csv |-> packets_csv]

\* WritePacketRow counting the frame's transport again as it writes the row.
WritePacketRowCounted(st, f, frame_no, flag) ==
    IF flag THEN st
    ELSE [st EXCEPT !.packets_csv = Append(@, PacketRow(f, frame_no)),
                    !.stats = AddL4(@, f.l4)]

\* if packets_writer: packets_writer.writerow(row); flag is only_modbus,
\* which leaves packets_writer None.
WritePacketRow(st, f, frame_no, flag) ==
    IF flag THEN st
    ELSE [st EXCEPT !.packets_csv = Append(@, PacketRow(f, frame_no))]

\* The correlation of a frame that has a transaction id.  write_ok tells
\* whether conversations_writer.writerow succeeds, should the frame come to it.
ParsePcapCorrelate(st, f, frame_no, write_ok) ==
    IF DictHas(st.pending, KeyResp(f))
    THEN LET req == DictGet(st.pending, KeyResp(f))
             rtt == ParsePcapRtt(req.time_epoch, f.time_epoch)
             conv_row == ConvRow(req, f, frame_no, rtt)
             popped == [st EXCEPT !.pending = DictDel(@, KeyResp(f))]
         IN  IF f.time_epoch.present /\ ~f.time_epoch.ok
             THEN \* float(time_epoch) raises: the run ends in the finally block
                  [popped EXCEPT !.pc = "aborted"]
             ELSE LET timed == IF rtt.present
                               THEN AddModbusRtt(popped.stats, rtt.v)
                               ELSE popped.stats
                  IN  [popped EXCEPT
                          !.stats = IF f.exception.present
                                    THEN AddModbusException(timed)
                                    ELSE timed,
                          !.conv_rows = Append(@, conv_row),
                          !.conversations_csv =
                              IF write_ok
                              THEN Append(@, conv_row)
                              ELSE \* except Exception: pass
                                   @]
    ELSE [st EXCEPT !.pending = DictSet(@, KeyReq(f), PendingEntry(f, frame_no))]

\* The body of the loop over the capture, for the frame f that is number
\* frame_no, from the state st.
ParsePcapLoop(st, f, frame_no, write_ok, flag) ==
    IF LimitReached(frame_no, max_packets)
    THEN \* break: the frame is left alone
         [st EXCEPT !.pc = "stopped"]
    ELSE LET counted == [st EXCEPT !.stats = CountFrame(@, f)]
             rowed == WritePacketRow(counted, f, frame_no, flag)
         IN  IF ~ModbusTid(f).present
             THEN \* no transaction id: the frame is counted and nothing else
                  rowed
             ELSE ParsePcapCorrelate(rowed, f, frame_no, write_ok)

\* One iteration of the loop over the capture.
ParsePcapPacket(f, write_ok) ==
    /\ prog = "parse_pcap"
    /\ pc = "run"
    /\ Len(packets) < MaxFrames
    /\ packets' = Append(packets, f)
    /\ processed' = processed + 1
    /\ LET after == ParsePcapLoop(ParseState, f, processed', write_ok, only_modbus)
       IN  /\ pc' = after.pc
           /\ stats' = after.stats
           /\ pending' = after.pending
           /\ conv_rows' = after.conv_rows
           /\ conversations_csv' = after.conversations_csv
           /\ packets_csv' = after.packets_csv
    /\ written' = IF pc' \in {"stopped", "aborted"} THEN ParsePcapFinally ELSE written
    /\ UNCHANGED <<fieldVars, only_modbus, sink_ok>>
    /\ UNCHANGED hmiVars
    /\ UNCHANGED <<prog, max_packets, toolsVars, scapyVars>>

\* "Top IP pairs" of Stats.to_markdown
TopIpPairs == MostCommon(stats.ip_pairs, TopN)

\* Stats.add_packet called on a packet from host number h to the server.
\* Hosts are numbered in the order in which they are first seen.
StatsAddPacket(h) ==
    /\ prog = "parse_pcap"
    /\ pc = "run"
    /\ stats.total_packets < MaxStatsPackets
    /\ h <= Len(stats.ip_pairs) + 1
    /\ stats' = AddPacket(stats, ToServer(ToString(h), 1, NumTime(1)))
    /\ UNCHANGED <<fieldVars, only_modbus, packets_csv, sinkVars>>
    /\ UNCHANGED hmiVars
    /\ UNCHANGED <<prog, pc, packets, processed, max_packets, pending, conv_rows,
                   conversations_csv, toolsVars, scapyVars>>

\* The capture is exhausted: the writers are closed and the report written.
ParsePcapEnd ==
    /\ prog = "parse_pcap"
    /\ pc = "run"
    /\ written' = ParsePcapFinally
    /\ pc' = IF sink_ok["report"] THEN "done" ELSE "aborted"
    /\ UNCHANGED <<fieldVars, only_modbus, packets_csv, sink_ok>>
    /\ UNCHANGED hmiVars
    /\ UNCHANGED <<prog, max_packets, packets, processed, parseVars, toolsVars, scapyVars>>

\* ------------------------------------ correlate_modbus (tshark JSON)

\* float(row["time_epoch"]) in extract_packet_row raises on a text that is
\* not a number; nothing catches it and main ends before anything is written.
ExtractRaises(f) == f.time_epoch.present /\ ~f.time_epoch.ok

\* indices["is_modbus_request"]: "True", "False" or "None"
IsModbusRequest(f) ==
    LET dst_is_502 == f.dst_port = ServerPort
        src_is_502 == f.src_port = ServerPort
    IN  IF dst_is_502 /\ ~src_is_502 THEN "True"
        ELSE IF src_is_502 /\ ~dst_is_502 THEN "False"
        ELSE "None"

\* The indices extract_packet_row returns for frame number n.
ExtractPacketRow(f, n) ==
    [is_modbus |-> HasModbusLayer(f),
     is_tcp |-> (f.l4 = "TCP"),
     tcp_stream |-> f.tcp_stream,
     modbus_trans_id |-> f.tid,
     modbus_func_code |-> ModbusField(f, f.func_code),
     modbus_exception_code |-> ModbusField(f, f.exception),
     modbus_reference_num |-> ModbusField(f, f.reference),
     modbus_word_cnt |-> ModbusField(f, f.word_cnt),
     modbus_byte_count |-> ModbusField(f, f.byte_cnt),
     register_values |-> IF HasModbusLayer(f) THEN f.values ELSE BlankStr,
     time_epoch |-> IF f.time_epoch.present THEN Some(f.time_epoch.v) ELSE Blank,
     src_ip |-> f.src_ip, dst_ip |-> f.dst_ip,
     src_port |-> f.src_port, dst_port |-> f.dst_port,
     frame_number |-> n,
     is_modbus_request |-> IF HasModbusLayer(f) THEN IsModbusRequest(f) ELSE "None"]

\* main's indexed_packets, for the frames read so far
IndexedPackets == [n \in DOMAIN packets |-> ExtractPacketRow(packets[n], n)]

\* stream = idx.get("tcp_stream") or "-1"
StreamOrMinusOne(idx) == IF idx.tcp_stream = NoStream THEN MinusOne ELSE idx.tcp_stream

\* key_req of correlate_modbus
StreamKey(idx) == <<StreamOrMinusOne(idx), idx.modbus_trans_id>>

\* r["rtt_ms"] of a matched pair
CorrelateRtt(t0, t1) ==
    IF t0.present /\ t1.present
    THEN Some((t1.v - t0.v) * MsPerSecond)
    ELSE Blank

\* MatchedRow with the two frame numbers exchanged.
MatchedRowFramesSwapped(req, idx) ==
    [tcp_stream |-> StreamOrMinusOne(idx), trans_id |-> idx.modbus_trans_id,
     client_ip |-> Some(req.src_ip), client_port |-> Some(req.src_port),
     server_ip |-> Some(idx.src_ip), server_port |-> Some(idx.src_port),
     request_frame |-> Some(idx.frame_number),
     response_frame |-> Some(req.frame_number),
     rtt_ms |-> CorrelateRtt(req.time_epoch, idx.time_epoch),
     function_code |-> Or(req.modbus_func_code, idx.modbus_func_code),
     reference_number |-> req.modbus_reference_num,
     word_count |-> req.modbus_word_cnt,
     byte_count |-> idx.modbus_byte_count,
     register_values |-> idx.register_values,
     exception_code |-> idx.modbus_exception_code]

MatchedRow(req, idx) ==
    [tcp_stream |-> StreamOrMinusOne(idx), trans_id |-> idx.modbus_trans_id,
     client_ip |-> Some(req.src_ip), client_port |-> Some(req.src_port),
     server_ip |-> Some(idx.src_ip), server_port |-> Some(idx.src_port),
     request_frame |-> Some(req.frame_number),
     response_frame |-> Some(idx.frame_number),
     rtt_ms |-> CorrelateRtt(req.time_epoch, idx.time_epoch),
     function_code |-> Or(req.modbus_func_code, idx.modbus_func_code),
     reference_number |-> req.modbus_reference_num,
     word_count |-> req.modbus_word_cnt,
     byte_count |-> idx.modbus_byte_count,
     register_values |-> idx.register_values,
     exception_code |-> idx.modbus_exception_code]

UnmatchedResponseRow(idx) ==
    [tcp_stream |-> StreamOrMinusOne(idx), trans_id |-> idx.modbus_trans_id,
     client_ip |-> BlankStr, client_port |-> Blank,
     server_ip |-> BlankStr, server_port |-> Blank,
     request_frame |-> Blank,
     response_frame |-> Some(idx.frame_number),
     rtt_ms |-> Blank,
     function_code |-> idx.modbus_func_code,
     reference_number |-> Blank, word_count |-> Blank,
     byte_count |-> Blank, register_values |-> BlankStr,
     exception_code |-> idx.modbus_exception_code]

\* The row of a dangling request, from an entry of open_reqs.
DanglingRow(e) ==
    [tcp_stream |-> e.k[1], trans_id |-> e.k[2],
     client_ip |-> BlankStr, client_port |-> Blank,
     server_ip |-> BlankStr, server_port |-> Blank,
     request_frame |-> Some(e.v.frame_number),
     response_frame |-> Blank,
     rtt_ms |-> Blank,
     function_code |-> e.v.modbus_func_code,
     reference_number |-> e.v.modbus_reference_num,
     word_count |-> e.v.modbus_word_cnt,
     byte_count |-> Blank, register_values |-> BlankStr,
     exception_code |-> Blank]

\* The rtt_ms values of the rows m for which float(m.get("rtt_ms")) does not
\* raise: a blank one is passed over.
ValidRtts(modbus_rows) ==
    LET numeric == SelectSeq(modbus_rows, LAMBDA m : m.rtt_ms.present)
    IN  [n \in DOMAIN numeric |-> numeric[n].rtt_ms.v]

\* func_counter of build_analysis_report: one count for every row, under its
\* function code or, for want of one, under "?" (here Blank).
RECURSIVE FuncCounter(_)
FuncCounter(modbus_rows) ==
    IF modbus_rows = << >> THEN EmptyDict
    ELSE CounterAdd(FuncCounter(SubSeq(modbus_rows, 1, Len(modbus_rows) - 1)),
                    modbus_rows[Len(modbus_rows)].function_code)

\* build_analysis_report, over the per-packet rows and the rows correlated
\* so far.
BuildAnalysisReport ==
    [packets |-> Len(packets),
     proto_counter |->
        [p \in L4Protocols |-> Cardinality({n \in DOMAIN packets : packets[n].l4 = p})],
     func_counter |-> FuncCounter(out_rows),
     exceptions |-> Len(SelectSeq(out_rows, LAMBDA m : m.exception_code.present)),
     valid_rtts |-> ValidRtts(out_rows)]

\* main's loop over packets_json: one frame is indexed.
MainExtract(f) ==
    /\ prog = "correlate_modbus"
    /\ pc = "extract"
    /\ Len(packets) < MaxFrames
    /\ packets' = Append(packets, f)
    /\ pc' = IF ExtractRaises(f) THEN "aborted" ELSE pc
    /\ UNCHANGED <<fieldVars, only_modbus, packets_csv, sinkVars>>
    /\ UNCHANGED hmiVars
    /\ UNCHANGED <<prog, max_packets, processed, parseVars, toolsVars, scapyVars>>

\* packets_json is exhausted: main calls correlate_modbus(indexed_packets).
MainCorrelate ==
    /\ prog = "correlate_modbus"
    /\ pc = "extract"
    /\ IF sink_ok["packets"]
       THEN \* write_csv(per_packet_csv, per_packet_rows)
            /\ written' = written \cup {"packets"}
            /\ pc' = "correlate"
       ELSE \* open raises, and main with it
            /\ written' = written
            /\ pc' = "aborted"
    /\ UNCHANGED <<fieldVars, only_modbus, packets_csv, sink_ok>>
    /\ UNCHANGED hmiVars
    /\ UNCHANGED <<prog, max_packets, packets, processed, parseVars, toolsVars, scapyVars>>

\* One iteration of correlate_modbus's loop over the packets.
CorrelateModbusPacket ==
    /\ prog = "correlate_modbus"
    /\ pc = "correlate"
    /\ processed < Len(packets)
    /\ processed' = processed + 1
    /\ LET idx == IndexedPackets[processed']
           key_req == StreamKey(idx)
       IN  IF ~idx.is_modbus
           THEN UNCHANGED <<open_reqs, out_rows>>
           ELSE IF idx.is_modbus_request = "True"
           THEN /\ open_reqs' = DictSet(open_reqs, key_req, idx)
                /\ out_rows' = out_rows
           ELSE IF idx.is_modbus_request = "False"
           THEN IF DictHas(open_reqs, key_req)
                THEN /\ open_reqs' = DictDel(open_reqs, key_req)
                     /\ out_rows' = Append(out_rows, MatchedRow(DictGet(open_reqs, key_req), idx))
                ELSE /\ open_reqs' = open_reqs
                     /\ out_rows' = Append(out_rows, UnmatchedResponseRow(idx))
           ELSE UNCHANGED <<open_reqs, out_rows>>
    /\ UNCHANGED <<fieldVars, only_modbus, packets_csv, sinkVars>>
    /\ UNCHANGED hmiVars
    /\ UNCHANGED <<prog, max_packets, pc, packets, parseVars, scapyVars>>

\* After the loop: every dangling request is emitted, and the rows returned.
CorrelateModbusFlush ==
    /\ prog = "correlate_modbus"
    /\ pc = "correlate"
    /\ processed = Len(packets)
    /\ out_rows' = out_rows \o [n \in DOMAIN open_reqs |-> DanglingRow(open_reqs[n])]
    /\ IF ~sink_ok["conversations"]
       THEN \* write_csv(modbus_csv, modbus_rows) raises, and main with it
            /\ written' = written
            /\ pc' = "aborted"
       ELSE IF ~sink_ok["report"]
       THEN \* build_analysis_report raises, and main with it
            /\ written' = written \cup {"conversations"}
            /\ pc' = "aborted"
       ELSE /\ written' = written \cup {"conversations", "report"}
            /\ pc' = "done"
    /\ UNCHANGED <<fieldVars, only_modbus, packets_csv, sink_ok>>
    /\ UNCHANGED hmiVars
    /\ UNCHANGED <<prog, max_packets, packets, processed, open_reqs, parseVars, scapyVars>>

\* ----------------------------- analyze_modbus_transactions (Scapy)
\* FunctionName with the names of the two multiple-write functions exchanged.
FunctionNameSwapped(function_code) ==
    CASE function_code = 1 -> "Read Coils"
      [] function_code = 2 -> "Read Discrete Inputs"
      [] function_code = 3 -> "Read Holding Registers"
      [] function_code = 4 -> "Read Input Registers"
      [] function_code = 5 -> "Write Single Coil"
      [] function_code = 6 -> "Write Single Register"
      [] function_code = 15 -> "Write Multiple Registers"
      [] function_code = 16 -> "Write Multiple Coils"
      [] OTHER -> "Unknown (" \o ToString(function_code) \o ")"

\* self.function_codes.get(function_code, f"Unknown ({function_code})")
FunctionName(function_code) ==
    CASE function_code = 1 -> "Read Coils"
      [] function_code = 2 -> "Read Discrete Inputs"
      [] function_code = 3 -> "Read Holding Registers"
      [] function_code = 4 -> "Read Input Registers"
      [] function_code = 5 -> "Write Single Coil"
      [] function_code = 6 -> "Write Single Register"
      [] function_code = 15 -> "Write Multiple Coils"
      [] function_code = 16 -> "Write Multiple Registers"
      [] OTHER -> "Unknown (" \o ToString(function_code) \o ")"

\* modbus_data of a frame whose header passed the tests.
ModbusData(f) ==
    [transaction_id |-> f.tid, function_code |-> f.func_code.v,
     function_name |-> FunctionName(f.func_code.v)]

\* ParseModbusPacket without the test of the protocol identifier.
ParseModbusPacketAnyProtocol(f) ==
    IF f.l4 # "TCP" \/ f.payload_len < MinModbusHeader
    THEN [present |-> FALSE, v |-> ModbusData(f)]
    ELSE Some(ModbusData(f))

\* ModbusAnalyzer.parse_modbus_packet: the header fields, or None.
ParseModbusPacket(f) ==
    IF f.l4 # "TCP" \/ f.payload_len < MinModbusHeader \/ f.proto_id # ModbusProtocolId
    THEN [present |-> FALSE, v |-> ModbusData(f)]
    ELSE Some(ModbusData(f))

\* packet_info of a frame
PacketInfo(f, packet_number) ==
    [packet_number |-> packet_number, timestamp |-> f.time_epoch.v,
     src_ip |-> f.src_ip, dst_ip |-> f.dst_ip,
     src_port |-> f.src_port, dst_port |-> f.dst_port,
     is_query |-> (f.dst_port = ServerPort),
     transaction_id |-> ParseModbusPacket(f).v.transaction_id,
     modbus_data |-> ParseModbusPacket(f).v]

\* The transaction of a query and its response.
Transaction(query_info, packet_info) ==
    [transaction_id |-> packet_info.transaction_id,
     query_packet |-> query_info.packet_number,
     response_packet |-> packet_info.packet_number,
     response_time_ms |-> (packet_info.timestamp - query_info.timestamp) * MsPerSecond,
     client_ip |-> query_info.src_ip,
     server_ip |-> query_info.dst_ip,
     function_code |-> query_info.modbus_data.function_code,
     function_name |-> query_info.modbus_data.function_name]

\* One iteration of the loop over self.packets.
AnalyzePacket(f) ==
    /\ prog = "analyze_modbus_transactions"
    /\ pc = "run"
    /\ Len(packets) < MaxFrames
    /\ packets' = Append(packets, f)
    /\ processed' = processed + 1
    /\ LET packet_info == PacketInfo(f, processed')
           transaction_id == packet_info.transaction_id
       IN  IF f.l4 # "TCP"
           THEN UNCHANGED <<pending_queries, transactions>>
           ELSE IF f.src_port # ServerPort /\ f.dst_port # ServerPort
           THEN UNCHANGED <<pending_queries, transactions>>
           ELSE IF ~ParseModbusPacket(f).present
           THEN UNCHANGED <<pending_queries, transactions>>
           ELSE IF packet_info.is_query
           THEN /\ pending_queries' = DictSet(pending_queries, transaction_id, packet_info)
                /\ transactions' = transactions
           ELSE IF DictHas(pending_queries, transaction_id)
           THEN /\ transactions' = Append(transactions,
                        Transaction(DictGet(pending_queries, transaction_id), packet_info))
                /\ pending_queries' = DictDel(pending_queries, transaction_id)
           ELSE UNCHANGED <<pending_queries, transactions>>
    /\ UNCHANGED <<fieldVars, only_modbus, packets_csv, sinkVars>>
    /\ UNCHANGED hmiVars
    /\ UNCHANGED <<prog, max_packets, pc, parseVars, toolsVars>>

\* len(packet), counting the bytes of the Modbus message only.
PacketLen(f) == f.payload_len

RECURSIVE TotalSize(_)
TotalSize(pkts) == IF pkts = << >> THEN 0 ELSE PacketLen(Head(pkts)) + TotalSize(Tail(pkts))

\* duration of generate_network_analysis, in seconds
Duration(pkts) ==
    IF Len(pkts) > 0 THEN pkts[Len(pkts)].time_epoch.v - pkts[1].time_epoch.v ELSE 0

\* PacketsPerSecond falling back on the packet count when there is no duration.
PacketsPerSecondOrCount(total_packets, duration) ==
    IF duration > 0 THEN Round2(total_packets, duration) ELSE 100 * total_packets

\* 'packets_per_second', in hundredths
PacketsPerSecond(total_packets, duration) ==
    IF duration > 0 THEN Round2(total_packets, duration) ELSE 0

\* 'average_packet_size', in hundredths
AveragePacketSize(total_size, total_packets) ==
    IF total_packets > 0 THEN Round2(total_size, total_packets) ELSE 0

\* generate_network_analysis, over the packets read so far.
GenerateNetworkAnalysis ==
    [total_packets |-> Len(packets),
     duration_seconds |-> Duration(packets),
     average_packet_size |-> AveragePacketSize(TotalSize(packets), Len(packets)),
     packets_per_second |-> PacketsPerSecond(Len(packets), Duration(packets)),
     protocol_count |->
        [p \in L4Protocols |-> Cardinality({n \in DOMAIN packets : packets[n].l4 = p})]]

\* self.packets is exhausted: the transactions are returned.
AnalyzeEnd ==
    /\ prog = "analyze_modbus_transactions"
    /\ pc = "run"
    /\ pc' = "done"
    /\ UNCHANGED <<fieldVars, only_modbus, packets_csv, sinkVars>>
    /\ UNCHANGED hmiVars
    /\ UNCHANGED <<prog, max_packets, packets, processed, parseVars, toolsVars, scapyVars>>

\* --------------------------------------------------------- specifications
\* Two clients and one server, any of the three programs.
Next ==
    \/ \E f \in CoreFrames : ParsePcapPacket(f, TRUE)
    \/ ParsePcapEnd
    \/ \E f \in CoreFrames : MainExtract(f)
    \/ MainCorrelate
    \/ CorrelateModbusPacket
    \/ CorrelateModbusFlush
    \/ \E f \in CoreFrames : AnalyzePacket(f)
    \/ AnalyzeEnd

Spec == Init /\ [][Next]_vars

\* One client and one server, with timestamps that differ, are missing or are
\* not numbers.  Scapy's packet.time is always a number.
RawTimes == {NoTime, BadTime} \cup {NumTime(t) : t \in Times}

TimeFrames ==
    {ToServer("c1", 1, t) : t \in RawTimes} \cup {FromServer("c1", 1, t) : t \in RawTimes}

NumTimeFrames == {f \in TimeFrames : f.time_epoch.ok}

NextTime ==
    \/ \E f \in TimeFrames : ParsePcapPacket(f, TRUE)
    \/ ParsePcapEnd
    \/ \E f \in TimeFrames : MainExtract(f)
    \/ MainCorrelate
    \/ CorrelateModbusPacket
    \/ CorrelateModbusFlush
    \/ \E f \in NumTimeFrames : AnalyzePacket(f)
    \/ AnalyzeEnd

SpecTime == Init /\ [][NextTime]_vars

\* One client and one server; frames with a protocol identifier other than
\* 0, frames cut short of the fixed header, and Modbus over UDP.
HeaderFrames ==
    LET good == {ToServer("c1", 1, NumTime(1)), FromServer("c1", 1, NumTime(1))}
    IN  good \cup {WithProtoId(f, ModbusProtocolId + 1) : f \in good}
             \cup {WithPayloadLen(f, MinModbusHeader - 1) : f \in good}
             \cup {OverUdp(f) : f \in good}

NextHeader ==
    \/ \E f \in HeaderFrames : ParsePcapPacket(f, TRUE)
    \/ ParsePcapEnd
    \/ \E f \in HeaderFrames : MainExtract(f)
    \/ MainCorrelate
    \/ CorrelateModbusPacket
    \/ CorrelateModbusFlush
    \/ \E f \in HeaderFrames : AnalyzePacket(f)
    \/ AnalyzeEnd

SpecHeader == Init /\ [][NextHeader]_vars

\* One client and one server, one response whose time is not a number, and
\* parse_pcap run with and without a frame limit.
LimitFrames ==
    {ToServer("c1", t, NumTime(1)) : t \in Tids}
        \cup {FromServer("c1", t, NumTime(1)) : t \in Tids}
        \cup {FromServer("c1", 1, BadTime)}

Limits == {Blank} \cup {Some(l) : l \in 0..MaxLimit}

InitLimit == InitWith(Programs, Limits)

NextLimit ==
    \/ \E f \in LimitFrames : ParsePcapPacket(f, TRUE)
    \/ ParsePcapEnd
    \/ \E f \in LimitFrames : MainExtract(f)
    \/ MainCorrelate
    \/ CorrelateModbusPacket
    \/ CorrelateModbusFlush
    \/ \E f \in {g \in LimitFrames : g.time_epoch.ok} : AnalyzePacket(f)
    \/ AnalyzeEnd

SpecLimit == InitLimit /\ [][NextLimit]_vars

\* One client and one server, and a conversations file whose writes can fail.
SinkFrames ==
    {ToServer("c1", t, NumTime(1)) : t \in Tids}
        \cup {FromServer("c1", t, NumTime(1)) : t \in Tids}

NextSink ==
    \/ \E f \in SinkFrames, write_ok \in BOOLEAN : ParsePcapPacket(f, write_ok)
    \/ ParsePcapEnd
    \/ \E f \in SinkFrames : MainExtract(f)
    \/ MainCorrelate
    \/ CorrelateModbusPacket
    \/ CorrelateModbusFlush
    \/ \E f \in SinkFrames : AnalyzePacket(f)
    \/ AnalyzeEnd

SpecSink == Init /\ [][NextSink]_vars

\* One client and one server, with frames whose two ports are both the
\* server port, or neither.
PortFrames ==
    {ToServer("c1", 1, NumTime(1)), FromServer("c1", 1, NumTime(1)),
     Frame("c1", ServerPort, Server, ServerPort, 1, NumTime(1)),
     Frame(Server, ServerPort, "c1", ServerPort, 1, NumTime(1)),
     Frame("c1", OtherPort, Server, OtherPort, 1, NumTime(1))}

NextPorts ==
    \/ \E f \in PortFrames : ParsePcapPacket(f, TRUE)
    \/ ParsePcapEnd
    \/ \E f \in PortFrames : MainExtract(f)
    \/ MainCorrelate
    \/ CorrelateModbusPacket
    \/ CorrelateModbusFlush
    \/ \E f \in PortFrames : AnalyzePacket(f)
    \/ AnalyzeEnd

SpecPorts == Init /\ [][NextPorts]_vars

\* One client and one server; frames with and without a function code, with
\* and without an exception code.
FuncFrames ==
    LET plain == {ToServer("c1", 1, NumTime(1)), FromServer("c1", 1, NumTime(1))}
        coded == plain \cup {WithFuncCode(f, Blank) : f \in plain}
    IN  coded \cup {WithException(f, Some(IllegalDataAddress)) : f \in coded}

NextFunc ==
    \/ \E f \in FuncFrames : ParsePcapPacket(f, TRUE)
    \/ ParsePcapEnd
    \/ \E f \in FuncFrames : MainExtract(f)
    \/ MainCorrelate
    \/ CorrelateModbusPacket
    \/ CorrelateModbusFlush
    \/ \E f \in FuncFrames : AnalyzePacket(f)
    \/ AnalyzeEnd

SpecFunc == Init /\ [][NextFunc]_vars

\* A Stats object fed with the packets of up to MaxHosts hosts.
NextStats == \E h \in 1..MaxHosts : StatsAddPacket(h)

SpecStats == InitOf({"parse_pcap"}) /\ [][NextStats]_vars

\* analyze_modbus_transactions over requests of two lengths, with timestamps
\* that rise, stay or fall.
RateFrames ==
    LET timed == {ToServer("c1", 1, NumTime(t)) : t \in 1..MaxLateTime}
    IN  timed \cup {WithPayloadLen(f, MinModbusHeader + 1) : f \in timed}

NextRate ==
    \/ \E f \in RateFrames : AnalyzePacket(f)
    \/ AnalyzeEnd

SpecRate == InitOf({"analyze_modbus_transactions"}) /\ [][NextRate]_vars

\* ------------------------------------------------------ ScenarioRunner
\* What the HMI programs never touch: the state of a conversion.
converterVars == <<prog, pc, packets, processed, max_packets, parseVars, toolsVars,
                   scapyVars, fieldVars, only_modbus, packets_csv, sinkVars>>

\* Time is counted in ticks of half a second.
TicksPerSecond == 2

\* The period of the HMI loop: 1000 ms.
RunnerPeriod == 1 * TicksPerSecond

\* time.sleep(2) before the next scenario starts
NextScenarioSleep == 2 * TicksPerSecond

ManualOff == 1
ManualOn == 2
Auto == 3

\* self.scenarios: two short scenarios in the shape of the default ones.
Scenarios ==
    << [duration |-> 2,
        steps |-> << [time |-> 0, action |-> "set_mode", device |-> "tank_input_valve",
                      value |-> ManualOn],
                     [time |-> 1, action |-> "set_mode", device |-> "tank_input_valve",
                      value |-> Auto] >>],
       [duration |-> 1,
        steps |-> << [time |-> 0, action |-> "set_mode", device |-> "conveyor_belt_engine",
                      value |-> ManualOff] >>] >>

Devices == {"tank_input_valve", "tank_output_valve", "conveyor_belt_engine"}

\* _start_scenario.  The runner notes the start and the menu choice in force.
StartScenario(h, index, now) ==
    [h EXCEPT !.current_scenario_index = index,
              !.scenario_start_time = now,
              !.scenario_running = TRUE]

\* abs(elapsed_time - step_time) < 1.0
StepIsDue(elapsed_time, step_time) ==
    /\ elapsed_time - step_time * TicksPerSecond < TicksPerSecond
    /\ step_time * TicksPerSecond - elapsed_time < TicksPerSecond

\* The tags after the steps of the scenario that are due, in their order.
RECURSIVE ExecuteSteps(_, _, _)
ExecuteSteps(tags, steps, elapsed_time) ==
    IF steps = << >> THEN tags
    ELSE LET step == Head(steps)
             sent == IF StepIsDue(elapsed_time, step.time) /\ step.action = "set_mode"
                        /\ step.device \in Devices
                     THEN [tags EXCEPT ![step.device] = step.value]
                     ELSE tags
         IN  ExecuteSteps(sent, Tail(steps), elapsed_time)

\* The ScenarioRunner after __init__, at the menu.
InitRunner ==
    /\ layer = EmptyDict
    /\ fields = << >>
    /\ only_modbus = FALSE
    /\ packets_csv = << >>
    /\ sink_ok = [s \in Sinks |-> TRUE]
    /\ written = {}
    /\ InitRun({"ScenarioRunner"}, {Blank})
    /\ hmi = [name |-> "ScenarioRunner", current_scenario_index |-> 0,
              scenario_start_time |-> 0, scenario_running |-> FALSE, stopped |-> FALSE]
    /\ plant = [now |-> 0, tags |-> [d \in Devices |-> Auto],
                choice |-> Blank, started |-> << >>, step_runs |-> << >>,
                finished |-> << >>]

\* plant after a scenario has started: who started it, and no step run yet.
NoteStart(pl, index, by_menu) ==
    [pl EXCEPT !.started = Append(@, [scenario |-> index, by_menu |-> by_menu,
                                      choice |-> pl.choice]),
               !.step_runs = [k \in DOMAIN Scenarios[index + 1].steps |-> 0]]

\* _operate at the menu: _handle_menu_selection.  choice is what int(input())
\* gives, blank when it raises ValueError; the next cycle comes wait ticks
\* after the scenario has started.
RunnerMenu(choice, wait) ==
    /\ prog = "ScenarioRunner"
    /\ ~hmi.stopped /\ ~hmi.scenario_running
    /\ Len(plant.started) < MaxStarts /\ plant.now < MaxRunnerTicks
    /\ LET chosen == [plant EXCEPT !.choice = choice, !.now = @ + wait]
       IN  IF ~choice.present
           THEN \* except ValueError
                hmi' = hmi /\ plant' = chosen
           ELSE IF 1 <= choice.v /\ choice.v <= Len(Scenarios)
           THEN /\ hmi' = StartScenario(hmi, choice.v - 1, plant.now)
                /\ plant' = NoteStart(chosen, choice.v - 1, TRUE)
           ELSE IF choice.v = Len(Scenarios) + 1
           THEN \* _start_all_scenarios
                /\ hmi' = StartScenario(hmi, 0, plant.now)
                /\ plant' = NoteStart(chosen, 0, TRUE)
           ELSE IF choice.v = Len(Scenarios) + 2
           THEN hmi' = [hmi EXCEPT !.stopped = TRUE] /\ plant' = chosen
           ELSE hmi' = hmi /\ plant' = chosen
    /\ UNCHANGED converterVars

\* _operate while a scenario runs: _execute_scenario and, when the duration
\* has elapsed, _finish_current_scenario.  The next cycle comes a period
\* after this one, or wait ticks after the sleep before the next scenario.
RunnerExecute(wait) ==
    /\ prog = "ScenarioRunner"
    /\ ~hmi.stopped /\ hmi.scenario_running
    /\ plant.now < MaxRunnerTicks
    /\ IF hmi.current_scenario_index >= Len(Scenarios)
       THEN /\ hmi' = [hmi EXCEPT !.scenario_running = FALSE]
            /\ plant' = [plant EXCEPT !.now = @ + RunnerPeriod]
       ELSE LET index == hmi.current_scenario_index
                scenario == Scenarios[index + 1]
                elapsed_time == plant.now - hmi.scenario_start_time
                stepped ==
                    [plant EXCEPT
                        !.tags = ExecuteSteps(@, scenario.steps, elapsed_time),
                        !.step_runs =
                            [k \in DOMAIN @ |->
                                IF StepIsDue(elapsed_time, scenario.steps[k].time)
                                THEN @[k] + 1 ELSE @[k]]]
                done == [stepped EXCEPT
                            !.finished = Append(@, [scenario |-> index,
                                                    step_runs |-> stepped.step_runs])]
            IN  IF elapsed_time < scenario.duration * TicksPerSecond
                THEN /\ wait = RunnerPeriod
                     /\ hmi' = hmi
                     /\ plant' = [stepped EXCEPT !.now = @ + RunnerPeriod]
                ELSE IF index < Len(Scenarios) - 1
                THEN \* the next scenario, after two seconds of sleep
                     LET woken == plant.now + NextScenarioSleep
                     IN  /\ Len(plant.started) < MaxStarts
                         /\ wait <= RunnerPeriod
                         /\ hmi' = StartScenario(hmi, index + 1, woken)
                         /\ plant' = [NoteStart(done, index + 1, FALSE)
                                          EXCEPT !.now = woken + wait]
                ELSE /\ wait = RunnerPeriod
                     /\ hmi' = [hmi EXCEPT !.scenario_running = FALSE]
                     /\ plant' = [done EXCEPT !.now = @ + RunnerPeriod]
    /\ UNCHANGED converterVars

\* What the user can type at the menu.
MenuChoices == {Blank} \cup {Some(n) : n \in 0..(Len(Scenarios) + 3)}

NextRunner ==
    \/ \E choice \in MenuChoices, wait \in 0..RunnerPeriod : RunnerMenu(choice, wait)
    \/ \E wait \in 0..RunnerPeriod : RunnerExecute(wait)

SpecRunner == InitRunner /\ [][NextRunner]_vars

\* ---------------------------------------------------------------- HMI2
\* Input is text: a sequence of characters.
UpperCase ==
    [ch \in {"a", "r", "s", "x", "y", "e", "n", "o"} |->
        CASE ch = "a" -> "A" [] ch = "r" -> "R" [] ch = "s" -> "S" [] ch = "x" -> "X"
          [] ch = "y" -> "Y" [] ch = "e" -> "E" [] ch = "n" -> "N" [] ch = "o" -> "O"]

\* str.upper
Upper(text) ==
    [i \in DOMAIN text |-> IF text[i] \in DOMAIN UpperCase THEN UpperCase[text[i]]
                           ELSE text[i]]

\* str.lower
Lower(text) ==
    [i \in DOMAIN text |->
        IF \E ch \in DOMAIN UpperCase : UpperCase[ch] = text[i]
        THEN CHOOSE ch \in DOMAIN UpperCase : UpperCase[ch] = text[i]
        ELSE text[i]]

Digits ==
    [ch \in {"0", "1", "2", "3", "4", "5", "6", "7", "8", "9"} |->
        CASE ch = "0" -> 0 [] ch = "1" -> 1 [] ch = "2" -> 2 [] ch = "3" -> 3
          [] ch = "4" -> 4 [] ch = "5" -> 5 [] ch = "6" -> 6 [] ch = "7" -> 7
          [] ch = "8" -> 8 [] ch = "9" -> 9]

RECURSIVE DigitsValue(_, _)
DigitsValue(text, acc) ==
    IF text = << >> THEN acc
    ELSE DigitsValue(Tail(text), 10 * acc + Digits[Head(text)])

\* int(text) of unsigned text: blank where int raises ValueError.
IntOf(text) ==
    IF text # << >> /\ \A i \in DOMAIN text : text[i] \in DOMAIN Digits
    THEN Some(DigitsValue(text, 0))
    ELSE Blank

\* self.available_attacks: the keys '1' to '6'.
AvailableAttacks == {<<"1">>, <<"2">>, <<"3">>, <<"4">>, <<"5">>, <<"6">>}

NoThread == 0

\* and self.attack_mode: the test every attack choice of the menu carries.
MayAttackAlways(h) == TRUE
MayAttack(h) == h.attack_mode

\* Thread.join returns when the thread has ended.
JoinedAtOnce(thread) == TRUE
Joined(thread) == thread.pc = "dead"

\* HMI2 after __init__, before the question about the attack mode.
InitHMI2 ==
    /\ layer = EmptyDict
    /\ fields = << >>
    /\ only_modbus = FALSE
    /\ packets_csv = << >>
    /\ sink_ok = [s \in Sinks |-> TRUE]
    /\ written = {}
    /\ InitRun({"HMI2"}, {Blank})
    /\ hmi = [name |-> "HMI2", at |-> "before_start", attack_mode |-> FALSE,
              attack_thread |-> NoThread, attack_running |-> FALSE]
    /\ plant = [now |-> 0, threads |-> << >>, attacks |-> 0, commands |-> 0,
                choice |-> << >>, outcome |-> "none"]

\* _before_start: the question is asked until the answer is yes or no.
BeforeStart(response) ==
    /\ prog = "HMI2"
    /\ hmi.at = "before_start"
    /\ LET answer == Lower(response)
       IN  IF answer \in {<<"y">>, <<"y", "e", "s">>}
           THEN hmi' = [hmi EXCEPT !.attack_mode = TRUE, !.at = "menu"]
           ELSE IF answer \in {<<"n">>, <<"n", "o">>}
           THEN hmi' = [hmi EXCEPT !.attack_mode = FALSE, !.at = "menu"]
           ELSE hmi' = hmi
    /\ UNCHANGED plant
    /\ UNCHANGED converterVars

\* _toggle_auto_attack up to the point where it returns or waits in join.
ToggleAutoAttack(h, pl) ==
    IF h.attack_running
    THEN [hmi |-> [h EXCEPT !.attack_running = FALSE,
                            !.at = IF h.attack_thread # NoThread THEN "joining"
                                   ELSE "menu"],
          plant |-> pl]
    ELSE [hmi |-> [h EXCEPT !.attack_running = TRUE,
                            !.attack_thread = Len(pl.threads) + 1],
          plant |-> [pl EXCEPT !.threads = Append(@, [pc |-> "test", left |-> 0])]]

\* The numeric branch of _operate: the choice and the second input, each as
\* the number read or blank where the conversion raises ValueError.
OperateCommand(pl, input1, input2) ==
    IF ~input1.present \/ input1.v < 1 \/ input1.v > 6
    THEN [pl EXCEPT !.outcome = "rejected"]
    ELSE IF ~input2.present
    THEN [pl EXCEPT !.outcome = "rejected"]
    ELSE IF input1.v <= 3 /\ input2.v < 0
    THEN [pl EXCEPT !.outcome = "rejected"]
    ELSE IF input1.v > 3 /\ (input2.v < 1 \/ input2.v > 3)
    THEN [pl EXCEPT !.outcome = "rejected"]
    ELSE [pl EXCEPT !.outcome = "command", !.commands = @ + 1]

\* _operate: one choice at the menu, with the second input where one is asked.
Operate(choice, input2) ==
    /\ prog = "HMI2"
    /\ hmi.at = "menu"
    /\ plant.attacks < MaxAttacks /\ plant.commands < MaxCommands
    /\ LET asked == [plant EXCEPT !.choice = choice]
       IN  IF Upper(choice) = <<"A">> /\ MayAttack(hmi)
           THEN /\ hmi.attack_running \/ Len(plant.threads) < MaxThreads
                /\ LET toggled == ToggleAutoAttack(hmi, asked)
                   IN  /\ hmi' = toggled.hmi
                       /\ plant' = [toggled.plant EXCEPT !.outcome = "toggled"]
           ELSE IF Upper(choice) = <<"R">> /\ MayAttack(hmi)
           THEN /\ hmi' = hmi
                /\ plant' = [asked EXCEPT !.outcome = "attack", !.attacks = @ + 1]
           ELSE IF Upper(choice) # << >> /\ Head(Upper(choice)) = "S" /\ MayAttack(hmi)
           THEN /\ hmi' = hmi
                /\ plant' = IF Tail(Upper(choice)) \in AvailableAttacks
                            THEN [asked EXCEPT !.outcome = "attack", !.attacks = @ + 1]
                            ELSE [asked EXCEPT !.outcome = "rejected"]
           ELSE /\ hmi' = hmi
                /\ plant' = OperateCommand(asked, IntOf(choice), input2)
    /\ UNCHANGED converterVars

\* attack_thread.join() returns, and with it the toggle that stopped the attacks.
ToggleReturns ==
    /\ prog = "HMI2"
    /\ hmi.at = "joining"
    /\ Joined(plant.threads[hmi.attack_thread])
    /\ hmi' = [hmi EXCEPT !.at = "menu"]
    /\ UNCHANGED plant
    /\ UNCHANGED converterVars

\* _auto_attack_loop of thread t, one step: the test of the while loop, a
\* second of the sleep, the test before the attack, the attack.
AutoAttackLoop(t, sleep_time) ==
    /\ prog = "HMI2"
    /\ t \in DOMAIN plant.threads
    /\ LET thread == plant.threads[t]
       IN  /\ thread.pc # "dead"
           /\ CASE thread.pc = "test" ->
                    plant' = [plant EXCEPT !.threads[t] =
                                 IF hmi.attack_running
                                 THEN [pc |-> "sleeping", left |-> sleep_time]
                                 ELSE [pc |-> "dead", left |-> 0]]
                [] thread.pc = "sleeping" ->
                    plant' = [plant EXCEPT !.threads[t] =
                                 IF thread.left = 0 THEN [pc |-> "check", left |-> 0]
                                 ELSE IF ~hmi.attack_running THEN [pc |-> "dead", left |-> 0]
                                 ELSE [pc |-> "sleeping", left |-> thread.left - 1]]
                [] thread.pc = "check" ->
                    /\ hmi.attack_running => plant.attacks < MaxAttacks
                    /\ plant' = IF hmi.attack_running
                                THEN [plant EXCEPT !.threads[t].pc = "attacking",
                                                   !.attacks = @ + 1]
                                ELSE [plant EXCEPT !.threads[t].pc = "test"]
                [] thread.pc = "attacking" ->
                    plant' = [plant EXCEPT !.threads[t].pc = "test"]
    /\ UNCHANGED hmi
    /\ UNCHANGED converterVars

Responses == {<<"y">>, <<"Y", "E", "S">>, <<"n">>, <<"N", "o">>, <<"x">>, << >>}

Choices ==
    {<<"A">>, <<"a">>, <<"R">>, <<"r">>, <<"S", "1">>, <<"s", "6">>, <<"S", "7">>, <<"S">>,
     <<"1">>, <<"4">>, <<"6">>, <<"7">>, <<"0">>, <<"x">>, << >>}

SecondInputs == {Blank, Some(-1), Some(0), Some(1), Some(4)}

NextHMI2 ==
    \/ \E response \in Responses : BeforeStart(response)
    \/ \E choice \in Choices, input2 \in SecondInputs : Operate(choice, input2)
    \/ ToggleReturns
    \/ \E t \in 1..MaxThreads, sleep_time \in 1..MaxSleep : AutoAttackLoop(t, sleep_time)

SpecHMI2 == InitHMI2 /\ [][NextHMI2]_vars

\* ---------------------------------------------------- LongTermScenario
\* Time is counted in hours since the midnight before the start; levels are
\* counted in tenths of a litre.
HoursPerDay == 24
MinShiftGap == 4
DayShiftStart == 6
DayShiftEnd == 18
MaintenanceGapDays == 7
MaintenanceFrom == 2
MaintenanceTo == 4
MaintenanceHours == 2
AdjustmentGap == 12
EmergencyDays == 30
EmergencyHour == 14
HighTankLevel == 80
LowTankLevel == 20

\* The last two entries of a list of times.
LastTwo(times) == IF Len(times) <= 2 THEN times ELSE SubSeq(times, Len(times) - 1, Len(times))

\* now.hour
HourOf(now) == now % HoursPerDay

\* (now - then).days
DaysBetween(then, now) == (now - then) \div HoursPerDay

\* The devices after all three modes are set to mode.
SetModes(tags, mode) ==
    [tags EXCEPT !.tank_input_valve_mode = mode,
                 !.tank_output_valve_mode = mode,
                 !.conveyor_belt_engine_mode = mode]

\* time_since_last_change < timedelta(hours=4)
TooSoonNever(last_shift_change, now) == FALSE
TooSoon(last_shift_change, now) == now - last_shift_change < MinShiftGap

\* new_shift of _check_shift_change; "none" where the code leaves it None.
NewShift(current_hour, current_shift) ==
    IF DayShiftStart <= current_hour /\ current_hour < DayShiftEnd /\ current_shift # "day"
    THEN "day"
    ELSE IF (current_hour >= DayShiftEnd \/ current_hour < DayShiftStart)
            /\ current_shift # "night"
    THEN "night"
    ELSE "none"

\* _check_shift_change
CheckShiftChange(st, now) ==
    LET new_shift == NewShift(HourOf(now), st.hmi.current_shift)
    IN  IF TooSoon(st.hmi.last_shift_change, now) THEN st
        ELSE IF new_shift # "none" /\ new_shift # st.hmi.current_shift
        THEN [hmi |-> [st.hmi EXCEPT !.current_shift = new_shift,
                                     !.last_shift_change = now],
              plant |-> [st.plant EXCEPT
                            !.tags.tank_level_max = IF new_shift = "day" THEN 72 ELSE 68,
                            !.shift_changes = Append(@, now)]]
        ELSE st

\* _check_maintenance_schedule, with _start_maintenance_mode and
\* _end_maintenance_mode
CheckMaintenanceSchedule(st, now) ==
    LET time_since_maintenance == now - st.hmi.last_maintenance
        current_hour == HourOf(now)
    IN  IF /\ time_since_maintenance > MaintenanceGapDays * HoursPerDay
           /\ MaintenanceFrom <= current_hour /\ current_hour <= MaintenanceTo
           /\ st.hmi.operation_mode # "maintenance"
        THEN [hmi |-> [st.hmi EXCEPT !.operation_mode = "maintenance",
                                     !.last_maintenance = now],
              plant |-> [st.plant EXCEPT !.tags = SetModes(@, ManualOff)]]
        ELSE IF st.hmi.operation_mode = "maintenance"
                /\ time_since_maintenance > MaintenanceHours
        THEN [hmi |-> [st.hmi EXCEPT !.operation_mode = "normal"],
              plant |-> [st.plant EXCEPT
                            !.tags = [SetModes(@, Auto) EXCEPT !.tank_level_min = 32,
                                                               !.tank_level_max = 70]]]
        ELSE st

\* _check_parameter_adjustment; the tank level is received without error.
CheckParameterAdjustment(st, now, current_tank_level) ==
    IF now - st.hmi.last_parameter_adjustment < AdjustmentGap THEN st
    ELSE IF st.hmi.operation_mode = "normal"
    THEN [hmi |-> [st.hmi EXCEPT !.last_parameter_adjustment = now],
          plant |-> IF current_tank_level > HighTankLevel
                    THEN [st.plant EXCEPT !.tags.tank_level_max = 65]
                    ELSE IF current_tank_level < LowTankLevel
                    THEN [st.plant EXCEPT !.tags.tank_level_min = 25]
                    ELSE st.plant]
    ELSE st

\* _simulate_emergency: the devices are stopped and, ten seconds later,
\* back in AUTO.
SimulateEmergency(st, now) ==
    [hmi |-> [st.hmi EXCEPT !.operation_mode = "normal"],
     plant |-> [st.plant EXCEPT
                   !.tags = SetModes(SetModes(@, ManualOff), Auto),
                   !.emergencies = Append(@, DaysBetween(st.hmi.scenario_start_time, now))]]

\* _check_emergency_simulation
CheckEmergencySimulation(st, now) ==
    LET days == DaysBetween(st.hmi.scenario_start_time, now)
    IN  IF /\ days > 0 /\ days % EmergencyDays = 0
           /\ HourOf(now) = EmergencyHour
           /\ st.hmi.operation_mode # "emergency"
        THEN SimulateEmergency(st, now)
        ELSE st

\* The LongTermScenario after __init__ and _before_start, started at an
\* hour of the day.
InitLongTerm ==
    /\ layer = EmptyDict
    /\ fields = << >>
    /\ only_modbus = FALSE
    /\ packets_csv = << >>
    /\ sink_ok = [s \in Sinks |-> TRUE]
    /\ written = {}
    /\ InitRun({"LongTermScenario"}, {Blank})
    /\ \E start \in 0..(HoursPerDay - 1) :
          /\ hmi = [name |-> "LongTermScenario", scenario_start_time |-> start,
                    current_shift |-> "day", last_shift_change |-> start,
                    last_maintenance |-> start, last_parameter_adjustment |-> start,
                    operation_mode |-> "normal"]
          /\ plant = [now |-> start, cycles |-> 0,
                      tags |-> [tank_input_valve_mode |-> Auto,
                                tank_output_valve_mode |-> Auto,
                                conveyor_belt_engine_mode |-> Auto,
                                tank_level_min |-> 30, tank_level_max |-> 70,
                                bottle_level_max |-> 18],
                      shift_changes |-> << >>, emergencies |-> << >>]

\* _operate, one cycle: in the hour of the cycle before (advance 0) or in
\* the next hour (advance 1), with the tank level the plant shows.
LongTermOperate(advance, current_tank_level) ==
    /\ prog = "LongTermScenario"
    /\ advance = 0 => plant.cycles < MaxCyclesPerHour
    /\ LET now == plant.now + advance
           timed == [hmi |-> hmi,
                     plant |-> [plant EXCEPT !.now = now,
                                             !.cycles = IF advance = 0 THEN @ + 1 ELSE 1]]
           shifted == CheckShiftChange(timed, now)
           maintained == CheckMaintenanceSchedule(shifted, now)
           adjusted == CheckParameterAdjustment(maintained, now, current_tank_level)
           after == CheckEmergencySimulation(adjusted, now)
       IN  /\ DaysBetween(hmi.scenario_start_time, now) < MaxDays
           /\ hmi' = after.hmi
           /\ plant' = [after.plant EXCEPT !.shift_changes = LastTwo(@)]
    /\ UNCHANGED converterVars

TankLevels == {LowTankLevel - 1, HighTankLevel - 1, HighTankLevel + 1}

NextLongTerm ==
    \E advance \in {0, 1}, current_tank_level \in TankLevels :
        LongTermOperate(advance, current_tank_level)

SpecLongTerm == InitLongTerm /\ [][NextLongTerm]_vars

\* ------------------------------------------------------- field lookup
\* Field names are spelled letter by letter, without the prefix of the layer
\* and in lower case.
FieldLen == <<"l", "e", "n">>
FieldHdrLen == <<"h", "d", "r", "_", "l", "e", "n">>
FieldLength == <<"l", "e", "n", "g", "t", "h">>
FieldSeq == <<"s", "e", "q">>

\* p in key_l
IsSubstring(p, key) ==
    \E i \in 0..(Len(key) - Len(p)) : SubSeq(key, i + 1, i + Len(p)) = p

\* get_field_values: the first candidate that is a field of the layer.
RECURSIVE GetFieldValues(_, _)
GetFieldValues(l, candidates) ==
    IF candidates = << >> THEN Blank
    ELSE IF DictHas(l, Head(candidates)) THEN Some(DictGet(l, Head(candidates)))
    ELSE GetFieldValues(l, Tail(candidates))

\* _find_field: the first key of the layer, in the order of the layer, that
\* contains every one of name_parts.
FindField(l, name_parts) ==
    LET hits == {n \in DOMAIN l :
                    \A i \in DOMAIN name_parts : IsSubstring(name_parts[i], l[n].k)}
    IN  IF hits = {} THEN Blank
        ELSE Some(l[CHOOSE n \in hits : \A m \in hits : n <= m].v)

\* _find_field(layer, a) or _find_field(layer, b) or ...
RECURSIVE FindFieldOr(_, _)
FindFieldOr(l, candidates) ==
    IF candidates = << >> THEN Blank
    ELSE Or(FindField(l, <<Head(candidates)>>), FindFieldOr(l, Tail(candidates)))

\* One logical field is looked up in the layer.
LookupField(candidates) ==
    /\ prog \in {"parse_pcap", "correlate_modbus"}
    /\ Len(fields) < MaxLookups
    /\ fields' = Append(fields,
                     [candidates |-> candidates,
                      value |-> IF prog = "parse_pcap"
                                THEN GetFieldValues(layer, candidates)
                                ELSE FindFieldOr(layer, candidates)])
    /\ UNCHANGED hmiVars
    /\ UNCHANGED <<prog, pc, packets, processed, max_packets, parseVars, toolsVars,
                   scapyVars, layer, only_modbus, packets_csv, sinkVars>>

FieldNames == {FieldLen, FieldHdrLen, FieldLength, FieldSeq}
FieldValues == {"20", "32"}

\* The layers of at most MaxLayerFields fields, in every order.
Layers ==
    {l \in UNION {[1..n -> [k : FieldNames, v : FieldValues]] : n \in 0..MaxLayerFields} :
        \A i, j \in DOMAIN l : l[i].k = l[j].k => i = j}

CandidateLists == {<<FieldLen, FieldLength>>, <<FieldLength, FieldLen>>, <<FieldSeq>>}

InitFields ==
    /\ layer \in Layers
    /\ fields = << >>
    /\ only_modbus = FALSE
    /\ packets_csv = << >>
    /\ sink_ok = [s \in Sinks |-> TRUE]
    /\ written = {}
    /\ hmi = NoHmi
    /\ plant = NoPlant
    /\ InitRun({"parse_pcap", "correlate_modbus"}, {Blank})

\* parse_pcap and main of pcap_tools when some of the output files cannot be
\* written.
InitOutputs ==
    /\ layer = EmptyDict
    /\ fields = << >>
    /\ only_modbus = FALSE
    /\ packets_csv = << >>
    /\ sink_ok \in [Sinks -> BOOLEAN]
    /\ written = {}
    /\ hmi = NoHmi
    /\ plant = NoPlant
    /\ InitRun({"parse_pcap", "correlate_modbus"}, {Blank})

NextOutputs ==
    \/ \E f \in SinkFrames : ParsePcapPacket(f, TRUE)
    \/ ParsePcapEnd
    \/ \E f \in SinkFrames : MainExtract(f)
    \/ MainCorrelate
    \/ CorrelateModbusPacket
    \/ CorrelateModbusFlush

SpecOutputs == InitOutputs /\ [][NextOutputs]_vars

NextFields == \E candidates \in CandidateLists : LookupField(candidates)

SpecFields == InitFields /\ [][NextFields]_vars

\* analyze_modbus_transactions over requests with the eight function codes
\* that have a name and three that have none, and one response.
NamedFunctionCodes == {1, 2, 3, 4, 5, 6, 15, 16}
OtherFunctionCodes == {0, 7, 17}

NameFrames ==
    {WithFuncCode(ToServer("c1", 1, NumTime(1)), Some(c)) :
        c \in NamedFunctionCodes \cup OtherFunctionCodes}
        \cup {FromServer("c1", 1, NumTime(1))}

NextNames ==
    \/ \E f \in NameFrames : AnalyzePacket(f)
    \/ AnalyzeEnd

SpecNames == InitOf({"analyze_modbus_transactions"}) /\ [][NextNames]_vars

\* parse_pcap with and without only_modbus, with and without a frame limit,
\* over a request, its response, a response whose time is not a number, a
\* response that reports an exception and a frame that is not Modbus.
FlagFrames ==
    {ToServer("c1", 1, NumTime(1)), FromServer("c1", 1, NumTime(2)),
     FromServer("c1", 1, BadTime),
     WithException(FromServer("c1", 1, NumTime(2)), Some(IllegalDataAddress)),
     WithProtoId(ToServer("c1", 1, NumTime(1)), ModbusProtocolId + 1)}

InitFlag ==
    /\ layer = EmptyDict
    /\ fields = << >>
    /\ only_modbus \in BOOLEAN
    /\ packets_csv = << >>
    /\ sink_ok = [s \in Sinks |-> TRUE]
    /\ written = {}
    /\ hmi = NoHmi
    /\ plant = NoPlant
    /\ InitRun({"parse_pcap"}, Limits)

NextFlag ==
    \/ \E f \in FlagFrames : ParsePcapPacket(f, TRUE)
    \/ ParsePcapEnd

SpecFlag == InitFlag /\ [][NextFlag]_vars

\* The correlators over a read request, its response with the register
\* values, and a response with another function code.
DataFrames ==
    LET request == WithReference(ToServer("c1", 1, NumTime(1)), Some(0), Some(2))
        response == WithValues(FromServer("c1", 1, NumTime(1)), 4, "0001;0002")
    IN  {request, ToServer("c1", 1, NumTime(1)), response,
         WithFuncCode(response, Some(ReadInputRegisters)),
         WithException(FromServer("c1", 1, NumTime(1)), Some(IllegalDataAddress))}

NextData ==
    \/ \E f \in DataFrames : ParsePcapPacket(f, TRUE)
    \/ ParsePcapEnd
    \/ \E f \in DataFrames : MainExtract(f)
    \/ MainCorrelate
    \/ CorrelateModbusPacket
    \/ CorrelateModbusFlush

SpecData == InitOf({"parse_pcap", "correlate_modbus"}) /\ [][NextData]_vars

\* The correlators over a request and its response, and over frames whose
\* header is not Modbus/TCP; parse_pcap and correlate_modbus over frames the
\* decoder shows no transaction id of, too.
LayerFrames ==
    LET good == {ToServer("c1", 1, NumTime(1)), FromServer("c1", 1, NumTime(1))}
    IN  good \cup {WithProtoId(f, ModbusProtocolId + 1) : f \in good}
             \cup {WithPayloadLen(f, MinModbusHeader - 1) : f \in good}

TidlessFrames ==
    {WithoutTid(ToServer("c1", 1, NumTime(1))), WithoutTid(FromServer("c1", 1, NumTime(1)))}

NextLayer ==
    \/ \E f \in LayerFrames \cup TidlessFrames : ParsePcapPacket(f, TRUE)
    \/ ParsePcapEnd
    \/ \E f \in LayerFrames \cup TidlessFrames : MainExtract(f)
    \/ MainCorrelate
    \/ CorrelateModbusPacket
    \/ CorrelateModbusFlush
    \/ \E f \in LayerFrames : AnalyzePacket(f)
    \/ AnalyzeEnd

SpecLayer == Init /\ [][NextLayer]_vars

\* ------------------------------------------- the vocabulary of the claims
\* A Transaction as the claims speak of it: the request's and the response's
\* frame numbers and rtt_ms, each possibly blank.
Txn(req, resp, rtt) == [req |-> req, resp |-> resp, rtt |-> rtt]

\* The Transactions the running program has emitted so far, in order.
Txns ==
    IF prog = "parse_pcap"
    THEN [n \in DOMAIN conv_rows |->
            Txn(conv_rows[n].req_frame, conv_rows[n].resp_frame, conv_rows[n].rtt_ms)]
    ELSE IF prog = "correlate_modbus"
    THEN [n \in DOMAIN out_rows |->
            Txn(out_rows[n].request_frame, out_rows[n].response_frame, out_rows[n].rtt_ms)]
    ELSE [n \in DOMAIN transactions |->
            Txn(Some(transactions[n].query_packet), Some(transactions[n].response_packet),
                Some(transactions[n].response_time_ms))]

\* The pending table of the running program.
PendingTable ==
    IF prog = "parse_pcap" THEN pending
    ELSE IF prog = "correlate_modbus" THEN open_reqs
    ELSE pending_queries

\* The frame number stored in an entry of the pending table.
EntryFrame(e) ==
    IF prog = "parse_pcap" THEN e.v.frame_no
    ELSE IF prog = "correlate_modbus" THEN e.v.frame_number
    ELSE e.v.packet_number

\* The frame numbers of the pending requests.
PendingFrames == {EntryFrame(PendingTable[n]) : n \in DOMAIN PendingTable}

\* Request- and response-classified frames (section 4.3 of the specification).
IsRequest(f) == f.dst_port = ServerPort
IsResponse(f) == f.src_port = ServerPort

\* r has the transaction id of q and the mirror image of its addresses and ports.
Mirrored(q, r) ==
    /\ q.tid = r.tid
    /\ q.src_ip = r.dst_ip /\ q.src_port = r.dst_port
    /\ q.dst_ip = r.src_ip /\ q.dst_port = r.src_port

SameDirection(f, g) ==
    /\ f.tid = g.tid
    /\ f.src_ip = g.src_ip /\ f.src_port = g.src_port
    /\ f.dst_ip = g.dst_ip /\ f.dst_port = g.dst_port

\* f and g have the same TransactionKey.
SameKey(f, g) == SameDirection(f, g) \/ Mirrored(f, g)

Parseable(t) == t.present /\ t.ok

\* The step handles one more frame in the correlation loop.
HandlesFrame == processed' = processed + 1

\* Frames i and j, both handled, are a well-formed pair: a request, later its
\* response, and no frame with their key between the two.
WellFormedPair(i, j) ==
    /\ i < j
    /\ IsRequest(packets[i]) /\ IsResponse(packets[j])
    /\ Mirrored(packets[i], packets[j])
    /\ \A k \in (i + 1)..(j - 1) : ~SameKey(packets[k], packets[i])
    /\ Parseable(packets[i].time_epoch) /\ Parseable(packets[j].time_epoch)
    /\ packets[j].time_epoch.v >= packets[i].time_epoch.v

\* The Transactions that carry frame i as their request or frame j as their response.
TxnsOfPair(i, j) ==
    {n \in DOMAIN Txns : Txns[n].req = Some(i) \/ Txns[n].resp = Some(j)}

\* ----------------------------------------------------------------- claims
\* C1: a request frame followed later by its response (same transaction id,
\* mirrored addresses and ports, no other frame with that key in between)
\* yields exactly one Transaction, which carries both frame numbers and
\* rtt_ms = (response timestamp - request timestamp) x 1000.
C1_PairYieldsOneTransaction ==
    \A i \in 1..processed : \A j \in 1..processed :
        WellFormedPair(i, j) =>
            /\ Cardinality(TxnsOfPair(i, j)) = 1
            /\ \A n \in TxnsOfPair(i, j) :
                Txns[n] = Txn(Some(i), Some(j),
                    Some((packets[j].time_epoch.v - packets[i].time_epoch.v) * MsPerSecond))

\* C2: rtt_ms of every matched Transaction is >= 0; a response whose
\* timestamp is earlier than its request's yields rtt_ms = 0.
C2_RttNeverNegative ==
    \A n \in DOMAIN Txns : Txns[n].rtt.present => Txns[n].rtt.v >= 0

\* C3: a response-classified frame for which no pending request with the
\* complementary key exists yields exactly one unmatched-response Transaction
\* with blank request frame and blank rtt_ms, and is not stored as pending.
C3_UnmatchedResponseEmitted ==
    [][(/\ HandlesFrame
        /\ IsResponse(packets'[processed'])
        /\ \A n \in PendingFrames : ~Mirrored(packets[n], packets'[processed']))
       => /\ Txns' = Append(Txns, Txn(Blank, Some(processed'), Blank))
          /\ PendingFrames' = PendingFrames]_vars

\* C4: at natural end of the stream every request still in the pending table
\* has been emitted as exactly one unmatched-request Transaction, with blank
\* response frame and blank rtt_ms.
C4_PendingFlushedAtEnd ==
    pc = "done" =>
        \A i \in PendingFrames :
            /\ Cardinality({n \in DOMAIN Txns : Txns[n].req = Some(i)}) = 1
            /\ \A n \in DOMAIN Txns :
                Txns[n].req = Some(i) => Txns[n] = Txn(Some(i), Blank, Blank)

\* The counters of the Stats object other than the count of packets.
StatsEventCounters == <<Len(stats.modbus_rtts), stats.modbus_exceptions>>

\* The step handles a request-classified frame whose key has a pending entry.
Supersedes ==
    /\ HandlesFrame
    /\ IsRequest(packets'[processed'])
    /\ \E i \in PendingFrames : SameDirection(packets[i], packets'[processed'])

\* C5: when a request-classified frame arrives for a key that already has a
\* pending entry, the new request replaces the old one and a counter of Stats
\* records it: the old request does not disappear uncounted.
C5_SupersededCounted ==
    [][Supersedes =>
        /\ processed' \in PendingFrames'
        /\ StatsEventCounters' # StatsEventCounters]_vars

\* In the frames of the capture, every request has its response: all frames
\* are requests or responses, and key by key the responses never outnumber
\* the requests before them and equal them in the end.
AllAnswered ==
    /\ \A i \in DOMAIN packets : IsRequest(packets[i]) # IsResponse(packets[i])
    /\ \A i \in DOMAIN packets :
        LET same(p) == {k \in 1..p : SameKey(packets[k], packets[i])}
            reqs(p) == Cardinality({k \in same(p) : IsRequest(packets[k])})
            resps(p) == Cardinality({k \in same(p) : IsResponse(packets[k])})
        IN  /\ \A p \in DOMAIN packets : resps(p) <= reqs(p)
            /\ resps(Len(packets)) = reqs(Len(packets))

NumRequests == Cardinality({i \in DOMAIN packets : IsRequest(packets[i])})

\* C6: N request frames, their responses arriving after any delay and in any
\* interleaving, yield exactly N Transactions by end of stream, none twice.
C6_OneTransactionPerRequest ==
    (pc = "done" /\ AllAnswered) =>
        /\ Len(Txns) = NumRequests
        /\ \A m \in DOMAIN Txns : \A n \in DOMAIN Txns : m # n => Txns[m] # Txns[n]

\* (client address, client port, server address, server port, transaction
\* id) of the frame stored in a pending entry; the server side is the one on
\* the well-known port.
TransactionKey(f) ==
    IF f.dst_port = ServerPort
    THEN <<f.src_ip, f.src_port, f.dst_ip, f.dst_port, f.tid>>
    ELSE <<f.dst_ip, f.dst_port, f.src_ip, f.src_port, f.tid>>

\* C7: in every reachable state the pending table holds at most one
\* PendingRequest per TransactionKey.
C7_OnePendingPerKey ==
    \A m \in DOMAIN PendingTable : \A n \in DOMAIN PendingTable :
        m # n =>
            TransactionKey(packets[EntryFrame(PendingTable[m])])
                # TransactionKey(packets[EntryFrame(PendingTable[n])])

\* C7 witness: requests of two connections are pending at once after a
\* request and its response have been matched.
C7_Witness ==
    /\ Len(PendingTable) >= 2
    /\ Len(Txns) >= 1

\* C8: a response is matched only with a pending request that has its
\* transaction id and the mirror image of its addresses and ports, so two
\* requests of different connections with one transaction id are pending at
\* the same time and each is matched by the response of its own connection.
C8_MatchedOnlyWhenMirrored ==
    /\ \A n \in DOMAIN Txns :
        (Txns[n].req.present /\ Txns[n].resp.present) =>
            Mirrored(packets[Txns[n].req.v], packets[Txns[n].resp.v])
    /\ \A i \in 1..processed :
        (/\ IsRequest(packets[i])
         /\ \A k \in (1..processed) \ {i} : ~SameKey(packets[k], packets[i]))
        => i \in PendingFrames

\* C9: a frame is handled as a request exactly when its destination port is
\* 502: only such a frame is inserted into the pending table, and such a
\* frame never pops a pending entry into a Transaction.
C9_ClassifiedByPort ==
    [][HandlesFrame =>
        /\ (processed' \in PendingFrames') = IsRequest(packets'[processed'])
        /\ IsRequest(packets'[processed']) => Txns' = Txns]_vars

\* C10: rtt_ms of an emitted Transaction is present if and only if the
\* request's and the response's timestamps were both parseable.
C10_RttPresentIffBothParseable ==
    \A n \in DOMAIN Txns :
        Txns[n].rtt.present =
            (/\ Txns[n].req.present /\ Txns[n].resp.present
             /\ Parseable(packets[Txns[n].req.v].time_epoch)
             /\ Parseable(packets[Txns[n].resp.v].time_epoch))

\* C10 witness: a matched Transaction without rtt_ms, one of the two
\* timestamps being missing or not a number.
C10_Witness ==
    \E n \in DOMAIN Txns :
        /\ Txns[n].req.present /\ Txns[n].resp.present
        /\ ~Txns[n].rtt.present

\* The total packet count and the generic TCP counter of the summary.
TotalPackets ==
    IF prog = "parse_pcap" THEN stats.total_packets
    ELSE IF prog = "correlate_modbus" THEN BuildAnalysisReport.packets
    ELSE GenerateNetworkAnalysis.total_packets

TcpPackets ==
    IF prog = "parse_pcap" THEN stats.l4_counter["TCP"]
    ELSE IF prog = "correlate_modbus" THEN BuildAnalysisReport.proto_counter["TCP"]
    ELSE GenerateNetworkAnalysis.protocol_count["TCP"]

\* A TCP frame on the Modbus port with a malformed Modbus header.
MalformedOnPort(f) ==
    /\ f.l4 = "TCP"
    /\ f.src_port = ServerPort \/ f.dst_port = ServerPort
    /\ f.proto_id # ModbusProtocolId \/ f.payload_len < MinModbusHeader

\* The step reads one more frame from the capture.
ReadsFrame == Len(packets') = Len(packets) + 1

\* C11: a frame on the Modbus port whose protocol identifier is not 0, or
\* whose payload is shorter than the 8-byte header, leaves the pending table
\* and the Transactions as they were when it is handled, and adds one to the
\* total packet count and one to the TCP counter when it is read.
C11_MalformedExcludedButCounted ==
    [][ /\ (HandlesFrame /\ MalformedOnPort(packets'[processed']))
            => (PendingTable' = PendingTable /\ Txns' = Txns)
        /\ (ReadsFrame /\ MalformedOnPort(packets'[Len(packets')]))
            => (TotalPackets' = TotalPackets + 1 /\ TcpPackets' = TcpPackets + 1)
      ]_vars

\* A malformed frame was handled while the request it mirrors was pending,
\* and the request is pending still.
C11_Witness ==
    \E i \in 1..processed : \E j \in 1..processed :
        /\ i < j
        /\ ~MalformedOnPort(packets[i]) /\ IsRequest(packets[i])
        /\ MalformedOnPort(packets[j]) /\ Mirrored(packets[i], packets[j])
        /\ i \in PendingFrames

\* The frames the loop has taken in and worked on: all it has read, but for
\* the one at which the frame limit stopped it.
Handled == IF pc = "stopped" THEN processed - 1 ELSE processed

\* The run is over and its summary is written.
RunOver ==
    \/ pc \in {"done", "stopped"}
    \/ pc = "aborted" /\ prog = "parse_pcap"

\* C12: at the end of the run the total packet count equals the number of
\* frames processed, each counted once.
C12_TotalPacketsIsFramesProcessed ==
    RunOver => TotalPackets = Handled

\* parse_pcap was cut off by a response whose time is not a number, after
\* three frames.
C12_Witness ==
    /\ prog = "parse_pcap" /\ pc = "aborted"
    /\ Handled >= 3

\* C13: with a frame limit L, parse_pcap never counts more than L frames; the
\* step that stops the run at the limit leaves the Stats, the pending table,
\* the Transactions and the rows written as they were; a run stopped at the
\* limit has counted exactly L frames and a run that ended before it all N.
C13_LimitProcessesPrefix ==
    [][ (prog = "parse_pcap" /\ max_packets.present) =>
            /\ stats'.total_packets <= max_packets.v
            /\ pc' = "stopped" =>
                   /\ UNCHANGED <<stats, pending, conv_rows, conversations_csv>>
                   /\ stats'.total_packets = max_packets.v
                   /\ Len(packets') > max_packets.v
            /\ pc' = "done" =>
                   /\ stats'.total_packets = Len(packets')
                   /\ Len(packets') <= max_packets.v
      ]_vars

\* A run stopped at a limit of at least two frames, with a request pending
\* and a Transaction emitted.
C13_Witness ==
    /\ prog = "parse_pcap" /\ pc = "stopped"
    /\ max_packets.present /\ max_packets.v >= 2
    /\ Len(pending) >= 1 /\ Len(conv_rows) >= 1

\* C14: a run stopped at the frame limit has emitted no unmatched-request
\* Transaction for the requests still pending, and a run that reached the
\* end of the stream has emitted one for each of them.
C14_EndingsDistinguishable ==
    /\ pc = "stopped" =>
          \A i \in PendingFrames : \A n \in DOMAIN Txns : Txns[n].req # Some(i)
    /\ pc = "done" =>
          \A i \in PendingFrames : \E n \in DOMAIN Txns : Txns[n] = Txn(Some(i), Blank, Blank)

\* The rows of the per-transaction table.  write_csv and export_to_csv write
\* every row they are given, or raise.
RowsWritten ==
    IF prog = "parse_pcap" THEN conversations_csv
    ELSE IF prog = "correlate_modbus" THEN out_rows
    ELSE transactions

\* C16: when the run is over, the per-transaction table has as many rows as
\* Transactions were emitted.
C16_OneRowPerTransaction ==
    pc = "done" => Len(RowsWritten) = Len(Txns)

\* C17: no frame ends the run early, whatever its fields hold: the loop goes
\* on to the frames after it.
C17_BadFieldNeverAborts ==
    pc # "aborted"

\* The request-classified frames handled so far that were neither matched
\* with a response nor superseded by a later request with their key.
UnresolvedRequests ==
    {i \in 1..processed :
        /\ IsRequest(packets[i])
        /\ \A n \in DOMAIN Txns : ~(Txns[n].req = Some(i) /\ Txns[n].resp.present)
        /\ \A j \in (i + 1)..processed :
              ~(IsRequest(packets[j]) /\ SameDirection(packets[j], packets[i]))}

\* C18: the pending table never holds more entries than there are unresolved
\* requests, and never the frame of a response.
C18_PendingBoundedByRequests ==
    /\ Len(PendingTable) <= Cardinality(UnresolvedRequests)
    /\ \A i \in PendingFrames : ~IsResponse(packets[i])

\* Both ports of the frame are the server port.
BothServerPort(f) == f.src_port = ServerPort /\ f.dst_port = ServerPort

\* C19: a Modbus frame whose source and destination port are both the server
\* port leaves the pending table and the Transactions as they were.
C19_BothPortsExcluded ==
    [][(HandlesFrame /\ BothServerPort(packets'[processed']))
          => (PendingTable' = PendingTable /\ Txns' = Txns)]_vars

\* The RTT sample list of the summary, in the two programs that keep one.
RttSamples ==
    IF prog = "parse_pcap" THEN stats.modbus_rtts
    ELSE BuildAnalysisReport.valid_rtts

\* C20: the RTT sample list has exactly as many samples as Transactions were
\* emitted with rtt_ms present.
C20_OneSamplePerRtt ==
    prog \in {"parse_pcap", "correlate_modbus"} =>
        Len(RttSamples) = Cardinality({n \in DOMAIN Txns : Txns[n].rtt.present})

\* A Transaction with rtt_ms and one without have both been emitted.
C20_Witness ==
    /\ prog \in {"parse_pcap", "correlate_modbus"}
    /\ \E n \in DOMAIN Txns : Txns[n].rtt.present
    /\ \E n \in DOMAIN Txns : Txns[n].resp.present /\ Txns[n].req.present /\ ~Txns[n].rtt.present

\* The exception code and the function code carried by the n-th Transaction,
\* in the two programs that keep Modbus statistics.
TxnException(n) ==
    IF prog = "parse_pcap" THEN conv_rows[n].exception ELSE out_rows[n].exception_code

TxnFuncCode(n) ==
    IF prog = "parse_pcap" THEN conv_rows[n].func_code ELSE out_rows[n].function_code

KeepsModbusStats == prog \in {"parse_pcap", "correlate_modbus"}

\* The exception counter and the function-code histogram of the summary.
ExceptionCounter ==
    IF prog = "parse_pcap" THEN stats.modbus_exceptions
    ELSE BuildAnalysisReport.exceptions

FuncHistogram ==
    IF prog = "parse_pcap" THEN stats.modbus_func_counter
    ELSE BuildAnalysisReport.func_counter

\* C21: the exception counter equals the number of emitted Transactions that
\* carry an exception code.
C21_ExceptionsCountTransactions ==
    KeepsModbusStats =>
        ExceptionCounter = Cardinality({n \in DOMAIN Txns : TxnException(n).present})

\* A Transaction with an exception code was emitted, and another frame with
\* an exception code is held in the pending table.
C21_Witness ==
    /\ KeepsModbusStats
    /\ \E n \in DOMAIN Txns : TxnException(n).present
    /\ \E i \in PendingFrames : packets[i].exception.present

\* C22: the counts of the function-code histogram add up to the number of
\* emitted Transactions that have a function code.
C22_FuncHistogramPerTransaction ==
    KeepsModbusStats =>
        CounterTotal(FuncHistogram) = Cardinality({n \in DOMAIN Txns : TxnFuncCode(n).present})

\* The place of an entry in the counter, that is the order of first sight.
PlaceIn(c, e) == CHOOSE n \in DOMAIN c : c[n] = e

\* top is a top list of the counter c.
IsTopList(top, c) ==
    /\ Len(top) <= TopN
    /\ Len(top) = TopN \/ Len(top) = Len(c)
    /\ \A i \in DOMAIN top : \E n \in DOMAIN c : c[n] = top[i]
    /\ \A i \in DOMAIN top : \A j \in DOMAIN top :
          i < j => /\ top[i].v >= top[j].v
                   /\ top[i].v = top[j].v => PlaceIn(c, top[i]) < PlaceIn(c, top[j])
    /\ \A n \in DOMAIN c :
          (\A i \in DOMAIN top : top[i] # c[n]) => \A i \in DOMAIN top : top[i].v >= c[n].v

\* C23: the top IP pairs hold at most 10 entries of the counter, in
\* non-increasing order of count, entries of equal count in the order they
\* were first seen, and no entry left out has a higher count than one kept.
C23_TopListsOrdered ==
    prog = "parse_pcap" => IsTopList(TopIpPairs, stats.ip_pairs)

\* More than ten pairs were seen, and one first seen after the tenth has a
\* higher count than one of the first ten.
C23_Witness ==
    /\ Len(stats.ip_pairs) > TopN
    /\ \E n \in DOMAIN stats.ip_pairs : \E m \in DOMAIN stats.ip_pairs :
          n <= TopN /\ m > TopN /\ stats.ip_pairs[m].v > stats.ip_pairs[n].v

\* x is n / d rounded to the hundredth, in hundredths.
IsQuotient(x, n, d) ==
    /\ 2 * (x * d - 100 * n) <= d
    /\ 2 * (100 * n - x * d) <= d

\* C24: packets/second is the packet count divided by the duration when the
\* duration is positive and 0 when it is not; the average packet size is the
\* total size divided by the packet count, and 0 for an empty capture.
C24_RatesGuarded ==
    prog = "analyze_modbus_transactions" =>
        LET a == GenerateNetworkAnalysis
        IN  /\ a.duration_seconds > 0 =>
                  IsQuotient(a.packets_per_second, Len(packets), a.duration_seconds)
            /\ a.duration_seconds <= 0 => a.packets_per_second = 0
            /\ Len(packets) > 0 =>
                  IsQuotient(a.average_packet_size, TotalSize(packets), Len(packets))
            /\ Len(packets) = 0 => a.average_packet_size = 0

\* A capture whose packet count over its duration is not a whole number of
\* hundredths.
C24_Witness ==
    /\ prog = "analyze_modbus_transactions"
    /\ Duration(packets) > 0
    /\ (100 * Len(packets)) % Duration(packets) # 0

\* The names of section 4.2 of the specification.
TableName(c) ==
    CASE c = 1 -> "Read Coils"
      [] c = 2 -> "Read Discrete Inputs"
      [] c = 3 -> "Read Holding Registers"
      [] c = 4 -> "Read Input Registers"
      [] c = 5 -> "Write Single Coil"
      [] c = 6 -> "Write Single Register"
      [] c = 15 -> "Write Multiple Coils"
      [] c = 16 -> "Write Multiple Registers"

\* C25: the function name of a Transaction is the name the table
\* gives its function code, and "Unknown(c)" for a code c the table lacks.
C25_FunctionNameOfTable ==
    prog = "analyze_modbus_transactions" =>
        \A n \in DOMAIN transactions :
            LET c == transactions[n].function_code
            IN  transactions[n].function_name =
                    IF c \in NamedFunctionCodes THEN TableName(c)
                    ELSE "Unknown(" \o ToString(c) \o ")"

\* C25, as the code spells it: the function name of a Transaction is the name the table
\* gives its function code, and "Unknown (c)", with a space before the
\* bracket, for a code c the table lacks.
C25_FunctionNameOfTableSpaced ==
    prog = "analyze_modbus_transactions" =>
        \A n \in DOMAIN transactions :
            LET c == transactions[n].function_code
            IN  transactions[n].function_name =
                    IF c \in NamedFunctionCodes THEN TableName(c)
                    ELSE "Unknown (" \o ToString(c) \o ")"

\* Transactions with a named and with an unnamed function code were emitted.
C25_Witness ==
    /\ \E n \in DOMAIN transactions : transactions[n].function_code \in NamedFunctionCodes
    /\ \E n \in DOMAIN transactions : transactions[n].function_code \in OtherFunctionCodes

\* The value of the first of the candidates that is a field of the layer l,
\* whatever the order of l.
FirstPresent(l, candidates) ==
    LET present == {i \in DOMAIN candidates : DictHas(l, candidates[i])}
    IN  IF present = {} THEN Blank
        ELSE Some(DictGet(l, candidates[CHOOSE i \in present : \A j \in present : i <= j]))

\* C26: a lookup returns the value of the first name of its candidate list
\* that is a field of the layer, in whatever order the layer stores its
\* fields, and nothing when no candidate is a field of the layer.
C26_FirstPresentCandidate ==
    \A n \in DOMAIN fields : fields[n].value = FirstPresent(layer, fields[n].candidates)

\* The run is over.
Ended == pc \in {"done", "stopped", "aborted"}

\* C27: when one output file cannot be written, the other two are written
\* all the same.
C27_OtherSinksWritten ==
    \A bad \in Sinks :
        (Ended /\ \A s \in Sinks : sink_ok[s] <=> s # bad) => Sinks \ {bad} \subseteq written

\* What parse_pcap starts the loop with.
ParseStart ==
    [pc |-> "run", stats |-> StatsInit, pending |-> EmptyDict, conv_rows |-> << >>,
     conversations_csv |-> << >>, packets_csv |-> << >>]

\* What the loop of parse_pcap carries after the frames pkts, every row
\* written, when only_modbus is flag.
RECURSIVE ParsePcapOver(_, _)
ParsePcapOver(pkts, flag) ==
    IF pkts = << >> THEN ParseStart
    ELSE LET before == ParsePcapOver(SubSeq(pkts, 1, Len(pkts) - 1), flag)
         IN  IF before.pc # "run" THEN before
             ELSE ParsePcapLoop(before, pkts[Len(pkts)], Len(pkts), TRUE, flag)

\* C28: the run with the flag to skip the per-packet table and the run
\* without it, over the same frames, have the same Transactions, the same
\* pending table and the same Stats; with the flag there are no per-packet
\* rows.
C28_FlagOnlySuppressesRows ==
    prog = "parse_pcap" =>
        LET other == ParsePcapOver(packets, ~only_modbus)
        IN  /\ conv_rows = other.conv_rows
            /\ conversations_csv = other.conversations_csv
            /\ pending = other.pending
            /\ stats = other.stats
            /\ only_modbus => packets_csv = << >>

\* A run with the flag has emitted a Transaction that carries an exception
\* and keeps a frame pending, where the run without it has written three
\* per-packet rows.
C28_Witness ==
    /\ prog = "parse_pcap" /\ only_modbus
    /\ \E n \in DOMAIN conv_rows : conv_rows[n].exception.present
    /\ pending # EmptyDict
    /\ packets_csv = << >>
    /\ Len(ParsePcapOver(packets, FALSE).packets_csv) >= 3

\* C29: the Transactions that carry a response frame are emitted in the order
\* of their response frames; those that carry none are emitted at the end of
\* the stream only, after all the others; and no Transaction carries a frame
\* the correlator has not been given yet.
C29_EmittedInFrameOrder ==
    /\ \A n, m \in DOMAIN Txns :
          (n < m /\ Txns[n].resp.present /\ Txns[m].resp.present)
              => Txns[n].resp.v < Txns[m].resp.v
    /\ \A n \in DOMAIN Txns :
          ~Txns[n].resp.present =>
              /\ pc = "done"
              /\ \A m \in DOMAIN Txns : Txns[m].resp.present => m < n
    /\ \A n \in DOMAIN Txns :
          /\ Txns[n].req.present => Txns[n].req.v <= processed
          /\ Txns[n].resp.present => Txns[n].resp.v <= processed

\* correlate_modbus is over: it emitted a matched Transaction, one for a
\* response without a request and, last, one for a request without a response.
C29_Witness ==
    /\ prog = "correlate_modbus" /\ pc = "done"
    /\ \E n \in DOMAIN Txns : Txns[n].req.present /\ Txns[n].resp.present
    /\ \E n \in DOMAIN Txns : ~Txns[n].req.present /\ Txns[n].resp.present
    /\ ~Txns[Len(Txns)].resp.present

\* Frames i, j and k, all handled: a request, the first response to it and a
\* later response to it, with no request of that transaction id in between.
AnsweredTwice(i, j, k) ==
    /\ i < j /\ j < k
    /\ IsRequest(packets[i]) /\ IsResponse(packets[j]) /\ IsResponse(packets[k])
    /\ Mirrored(packets[i], packets[j]) /\ Mirrored(packets[i], packets[k])
    /\ \A r \in (i + 1)..(j - 1) : ~SameKey(packets[r], packets[i])
    /\ \A r \in (i + 1)..(k - 1) :
          ~(IsRequest(packets[r]) /\ packets[r].tid = packets[i].tid)

\* C30: the first response to a pending request consumes it: a second
\* response with the same key, with no new request in between, is matched
\* with no request; no request frame is in two matched Transactions and no
\* response frame is in two Transactions.
C30_RequestConsumedOnce ==
    /\ \A i, j, k \in 1..processed :
          AnsweredTwice(i, j, k) =>
              \A n \in DOMAIN Txns : Txns[n].resp = Some(k) => ~Txns[n].req.present
    /\ \A n, m \in DOMAIN Txns :
          (n # m /\ Txns[n].req.present /\ Txns[n].resp.present
                 /\ Txns[m].req.present /\ Txns[m].resp.present)
              => Txns[n].req # Txns[m].req
    /\ \A n, m \in DOMAIN Txns :
          (n # m /\ Txns[n].resp.present /\ Txns[m].resp.present)
              => Txns[n].resp # Txns[m].resp

\* A request was answered twice, and the first answer made a Transaction.
C30_Witness ==
    \E i, j, k \in 1..processed :
        /\ AnsweredTwice(i, j, k)
        /\ \E n \in DOMAIN Txns : Txns[n].req = Some(i) /\ Txns[n].resp = Some(j)

\* The matched Transactions, and what each of them says, in one shape for
\* parse_pcap and correlate_modbus.
Matched == {n \in DOMAIN Txns : Txns[n].req.present /\ Txns[n].resp.present}

TxnFields(n) ==
    IF prog = "parse_pcap"
    THEN LET r == conv_rows[n]
         IN  [client |-> <<r.src_ip, r.src_port>>, server |-> <<r.dst_ip, r.dst_port>>,
              function |-> r.func_code, reference |-> r.reference, count |-> r.word_count,
              byte_count |-> r.byte_count, values |-> r.values,
              exception |-> r.exception, transaction_id |-> r.transaction_id]
    ELSE LET r == out_rows[n]
         IN  [client |-> <<r.client_ip.v, r.client_port.v>>,
              server |-> <<r.server_ip.v, r.server_port.v>>,
              function |-> r.function_code, reference |-> r.reference_number,
              count |-> r.word_count,
              byte_count |-> r.byte_count, values |-> r.register_values,
              exception |-> r.exception_code, transaction_id |-> r.trans_id]

\* C31: a matched Transaction has the client, the server, the function code,
\* the reference and the count of its request frame, the byte count, the
\* values and the exception code of its response frame, and the transaction
\* id of both.
C31_FieldsFromTheirFrame ==
    prog \in {"parse_pcap", "correlate_modbus"} =>
        \A n \in Matched :
            LET q == packets[Txns[n].req.v]
                r == packets[Txns[n].resp.v]
                t == TxnFields(n)
            IN  /\ t.client = <<q.src_ip, q.src_port>>
                /\ t.server = <<q.dst_ip, q.dst_port>>
                /\ t.function = q.func_code
                /\ t.reference = q.reference
                /\ t.count = q.word_cnt
                /\ t.byte_count = r.byte_cnt
                /\ t.values = r.values
                /\ t.exception = r.exception
                /\ t.transaction_id = q.tid
                /\ t.transaction_id = r.tid

\* The frame carries no Modbus layer, or one without a transaction id.
NoModbus(f) == ~HasModbusLayer(f) \/ f.tid = NoTid

\* C32: a frame with no Modbus layer, or with no transaction id, leaves the
\* pending table and the Transactions as they were when it is handled, and
\* adds exactly one to the total packet count when it is read.
C32_NoModbusOnlyCounted ==
    [][ /\ (HandlesFrame /\ NoModbus(packets'[processed']))
            => (PendingTable' = PendingTable /\ Txns' = Txns)
        /\ (ReadsFrame /\ NoModbus(packets'[Len(packets')]))
            => TotalPackets' = TotalPackets + 1
      ]_vars

\* C33: in every matched Transaction the request frame comes before the
\* response frame: its frame number is the smaller one.
C33_RequestBeforeResponse ==
    \A n \in DOMAIN Txns :
        (Txns[n].req.present /\ Txns[n].resp.present) => Txns[n].req.v < Txns[n].resp.v

\* Two matched Transactions were emitted, the second for a request that came
\* before the response of the first.
C33_Witness ==
    \E n, m \in DOMAIN Txns :
        /\ n < m
        /\ Txns[n].req.present /\ Txns[n].resp.present
        /\ Txns[m].req.present /\ Txns[m].resp.present
        /\ Txns[m].req.v < Txns[n].resp.v

\* C34: a scenario that the runner starts by itself, after another one has
\* finished, is started under the choice to run all scenarios only.
C34_SingleChoiceRunsOne ==
    prog = "ScenarioRunner" =>
        \A n \in DOMAIN plant.started :
            ~plant.started[n].by_menu => plant.started[n].choice = Some(Len(Scenarios) + 1)

\* C35: when a scenario has finished, each of its steps whose time is below
\* the duration has been executed exactly once.
C35_EachStepOnce ==
    prog = "ScenarioRunner" =>
        \A n \in DOMAIN plant.finished :
            LET scenario == Scenarios[plant.finished[n].scenario + 1]
            IN  \A k \in DOMAIN scenario.steps :
                    scenario.steps[k].time < scenario.duration
                        => plant.finished[n].step_runs[k] = 1

Alive(pl) == {t \in DOMAIN pl.threads : pl.threads[t].pc # "dead"}

\* C36: at most one automatic-attack thread is alive, and when the automatic
\* attacks are off and the toggle that turned them off has returned, no
\* thread is left that could start an attack.
C36_OneAttackThread ==
    prog = "HMI2" =>
        /\ Cardinality(Alive(plant)) <= 1
        /\ (~hmi.attack_running /\ hmi.at # "joining") => Alive(plant) = {}

\* Automatic attacks were stopped while the thread slept, and started again.
C36_Witness ==
    /\ prog = "HMI2"
    /\ Len(plant.threads) = 2
    /\ plant.threads[1].pc = "dead"
    /\ plant.threads[2].pc = "attacking"
    /\ plant.attacks = 1

\* The text of one of the numbers 1 to 6.
CommandChoice(text) == IntOf(text).present /\ IntOf(text).v \in 1..6

\* C37: with the attack mode off, no choice at the menu executes an attack
\* or starts the attack thread, and a command is sent for the choices 1 to
\* 6 only; every other choice is rejected.
C37_NoAttackOutsideAttackMode ==
    [][(prog = "HMI2" /\ ~hmi.attack_mode)
          => /\ plant'.attacks = plant.attacks
             /\ plant'.threads = plant.threads
             /\ hmi'.attack_running = hmi.attack_running
             /\ plant'.commands # plant.commands => CommandChoice(plant'.choice)
             /\ (hmi.at = "menu" /\ ~CommandChoice(plant'.choice))
                    => plant'.outcome = "rejected"]_vars

\* The choice S1 was rejected with the attack mode off.
C37_Witness ==
    /\ prog = "HMI2"
    /\ ~hmi.attack_mode /\ hmi.at = "menu"
    /\ plant.choice = <<"S", "1">>
    /\ plant.outcome = "rejected"
    /\ plant.commands = 1

\* C38: an emergency simulation is started on a day of the run on which none
\* was started before, and leaves the devices in AUTO and the operation mode
\* normal.
C38_EmergencyOncePerMark ==
    [][(prog = "LongTermScenario" /\ Len(plant'.emergencies) > Len(plant.emergencies))
          => /\ Len(plant'.emergencies) = Len(plant.emergencies) + 1
             /\ \A n \in DOMAIN plant.emergencies :
                    plant.emergencies[n] # plant'.emergencies[Len(plant'.emergencies)]
             /\ hmi'.operation_mode = "normal"
             /\ plant'.tags = SetModes(plant'.tags, Auto)]_vars

\* The shift of an hour of the day.
ShiftOfHour(hour) == IF 6 <= hour /\ hour <= 17 THEN "day" ELSE "night"

====
